---- MODULE Spec2Model ----
(***************************************************************************)
(* A model of claus-rs: the JSON object boundary scanner                   *)
(* (src/src/json_scan.rs), the conversation engine                         *)
(* (src/src/conversation.rs, src/src/anthropic.rs, src/src/lib.rs), the    *)
(* caller loop of the assistant example (src/examples/assistant/main.rs)   *)
(* and the event loop of the streaming example                             *)
(* (src/examples/streaming.rs).                                            *)
(***************************************************************************)
EXTENDS Integers, Sequences, FiniteSets, TLC

VARIABLES
    \* ---- JsonScanner and the caller that feeds it ----
    state,          \* JsonScanner.state
    brace_depth,    \* JsonScanner.brace_depth
    input,          \* the byte stream the caller holds
    pos,            \* bytes of input the scanner has consumed so far
    lastStart,      \* pos at the start of the last scan call
    lastLen,        \* length of the slice given to the last scan call
    lastResult,     \* ScanResult of the last scan call
    preState,       \* JsonScanner.state when the last scan call began
    preDepth,       \* JsonScanner.brace_depth when the last scan call began
    founds,         \* effective offsets (lastStart + k) of every Found(k) so far
    errors,         \* number of scan calls that returned Error so far
    \* ---- Conversation and what its last operation was given and returned ----
    system,         \* Conversation.system (Option: <<>> or <<s>>)
    messages,       \* Conversation.messages
    tools,          \* Conversation.tools
    lastOp,         \* the Conversation method called last
    lastArg,        \* its argument
    lastRequest,    \* the HttpRequest it returned (Option)
    lastReturn,     \* what handle_response returned (Option of Result)
    \* ---- the caller loop of the assistant example ----
    pc,             \* where main is: "top", "handle", "items", "done", "panicked"
    pending_request,\* main's pending_request (Option)
    sent,           \* the request given to send_request last (Option)
    rawBody,        \* the body send_request returned (Option)
    contents,       \* the content pieces the for loop iterates over
    idx,            \* how many of them it has processed
    respLen,        \* history length right after the last handle_response
    built,          \* requests built while iterating over the last response
    \* ---- one call of send_request ----
    variant,        \* whose send_request it is: "assistant" or "full_featured_chat"
    retries_left,   \* send_request's retries_left
    attempts,       \* the requests given to client.execute, in order
    responses,      \* the responses they got, in order
    waits,          \* the seconds slept, in order
    sendResult,     \* what send_request returned (Option of Result)
    \* ---- one turn of the streaming example ----
    spc,            \* where its main is: "top", "events", "after", "done"
    events,         \* what the event source yields for the request, in order
    epos,           \* how many of them the while loop has taken
    assistant_content, \* main's assistant_content
    current_text,   \* main's current_text
    streaming_message, \* a StreamingMessage (Option) and the deltas it is given
    \* ---- a MessagesRequestBuilder and the Api it builds for ----
    api,            \* the Api
    builder         \* the MessagesRequestBuilder

scanVars == <<state, brace_depth, input, pos, lastStart, lastLen, lastResult,
              preState, preDepth, founds, errors>>

convVars == <<system, messages, tools>>
convLast == <<lastOp, lastArg, lastRequest, lastReturn>>

sendVars == <<variant, retries_left, attempts, responses, waits, sendResult>>

streamVars == <<spc, events, epos, assistant_content, current_text, streaming_message>>

buildVars == <<api, builder>>

loopVars == <<pc, pending_request, sent, rawBody, contents, idx, respLen, built, sendVars,
              streamVars, buildVars>>

vars == <<scanVars, convVars, convLast, loopVars>>

-----------------------------------------------------------------------------
\* Bounds of the model.

\* Longest arbitrary byte string given to the scanner.
MaxLen == 4
\* Most string items (plain bytes or escape pairs) in one generated JSON object.
MaxItems == 1
\* Deepest nesting of generated JSON objects.
MaxDepth == 2
\* Longest message history a conversation is driven to.
MaxHistory == 2
\* Most content pieces in one response.
MaxPieces == 2
\* Most tools registered with a conversation.
MaxTools == 1
\* The history length from which the assistant loop sends no further request.
MaxLoopHistory == 4

-----------------------------------------------------------------------------
\* Bytes the scanner distinguishes (ASCII codes).

LBRACE == 123
RBRACE == 125
QUOTE == 34
BACKSLASH == 92

\* u8::is_ascii_whitespace: space, tab, line feed, form feed, carriage return.
IsAsciiWhitespace(byte) == byte \in {32, 9, 10, 12, 13}

\* The bytes arbitrary inputs are drawn from: space, quote, 'a', backslash and
\* the two braces.
Alphabet == {32, QUOTE, 97, BACKSLASH, LBRACE, RBRACE}

-----------------------------------------------------------------------------
\* ScanResult

NeedsMore == [kind |-> "NeedsMore", offset |-> 0]
Error == [kind |-> "Error", offset |-> 0]
Found(k) == [kind |-> "Found", offset |-> k]

\* JsonScanner::new
NewScanner == [state |-> "LookingForStart", brace_depth |-> 0]

\* JsonScanner::reset
Reset == [state |-> "LookingForStart", brace_depth |-> 0]

\* What one pass of the loop body does: it either goes on to the next byte
\* with the scanner's fields set (returns = FALSE), or returns a result.
Continue(st, d) == [state |-> st, brace_depth |-> d, returns |-> FALSE, result |-> NeedsMore]
Return(st, d, res) == [state |-> st, brace_depth |-> d, returns |-> TRUE, result |-> res]

\* A LookingForStart arm that skips every byte that is not '{'.
LookingForStartSkipsAll(d, byte) ==
    IF byte = LBRACE THEN Continue("InObject", 1)
    ELSE Continue("LookingForStart", d)

\* The arm ScanState::LookingForStart of the match in scan.
LookingForStart(d, byte) ==
    IF IsAsciiWhitespace(byte) THEN Continue("LookingForStart", d)
    ELSE IF byte = LBRACE THEN Continue("InObject", 1)
    ELSE Return("LookingForStart", d, Error)

\* An InObject arm that reports a backslash outside a string as an error.
InObjectRejectsBackslash(d, byte, i) ==
    IF byte = LBRACE THEN Continue("InObject", d + 1)
    ELSE IF byte = RBRACE THEN
        IF d - 1 = 0
        THEN Return(Reset.state, Reset.brace_depth, Found(i + 1))
        ELSE Continue("InObject", d - 1)
    ELSE IF byte = QUOTE THEN Continue("InString", d)
    ELSE IF byte = BACKSLASH THEN Return("InObject", d, Error)
    ELSE Continue("InObject", d)

\* An InObject arm that reports the index of the closing brace, not the split
\* point after it.
InObjectOffByOne(d, byte, i) ==
    IF byte = LBRACE THEN Continue("InObject", d + 1)
    ELSE IF byte = RBRACE THEN
        IF d - 1 = 0
        THEN Return(Reset.state, Reset.brace_depth, Found(i))
        ELSE Continue("InObject", d - 1)
    ELSE IF byte = QUOTE THEN Continue("InString", d)
    ELSE Continue("InObject", d)

\* The arm ScanState::InObject; i is the 0-based index of byte in the slice.
InObject(d, byte, i) ==
    IF byte = LBRACE THEN Continue("InObject", d + 1)
    ELSE IF byte = RBRACE THEN
        IF d - 1 = 0
        THEN Return(Reset.state, Reset.brace_depth, Found(i + 1))
        ELSE Continue("InObject", d - 1)
    ELSE IF byte = QUOTE THEN Continue("InString", d)
    ELSE Continue("InObject", d)

\* An InString arm that counts braces as the InObject arm does.
InStringCountsBraces(d, byte) ==
    IF byte = QUOTE THEN Continue("InObject", d)
    ELSE IF byte = BACKSLASH THEN Continue("InEscape", d)
    ELSE IF byte = LBRACE THEN Continue("InString", d + 1)
    ELSE IF byte = RBRACE THEN Continue("InString", d - 1)
    ELSE Continue("InString", d)

\* The arm ScanState::InString.
InString(d, byte) ==
    IF byte = QUOTE THEN Continue("InObject", d)
    ELSE IF byte = BACKSLASH THEN Continue("InEscape", d)
    ELSE Continue("InString", d)

\* An InEscape arm in which an escaped quote still ends the string.
InEscapeQuoteEnds(d, byte) ==
    IF byte = QUOTE THEN Continue("InObject", d) ELSE Continue("InString", d)

\* The arm ScanState::InEscape.
InEscape(d, byte) == Continue("InString", d)

\* The value a scan call leaves: the scanner's fields and the result.
Outcome(st, d, res) == [state |-> st, brace_depth |-> d, result |-> res]

\* The for loop of JsonScanner::scan from 0-based index i on, for a scanner
\* whose fields are st and d.
RECURSIVE ScanFrom(_, _, _, _)
ScanFrom(st, d, slice, i) ==
    IF i >= Len(slice) THEN Outcome(st, d, NeedsMore)
    ELSE LET byte == slice[i + 1]
             step == CASE st = "LookingForStart" -> LookingForStart(d, byte)
                       [] st = "InObject" -> InObject(d, byte, i)
                       [] st = "InString" -> InString(d, byte)
                       [] st = "InEscape" -> InEscape(d, byte)
         IN IF step.returns
            THEN Outcome(step.state, step.brace_depth, step.result)
            ELSE ScanFrom(step.state, step.brace_depth, slice, i + 1)

\* A scan that starts every call from a fresh scanner instead of self.
ScanFresh(st, d, slice) == ScanFrom("LookingForStart", 0, slice, 0)

\* JsonScanner::scan(&mut self, input) on a scanner whose fields are st and d.
Scan(st, d, slice) == ScanFrom(st, d, slice, 0)

-----------------------------------------------------------------------------
\* The inputs of the scanner model.

RECURSIVE ByteStrings(_)
\* Every byte string over Alphabet of length at most n.
ByteStrings(n) ==
    IF n = 0 THEN {<<>>}
    ELSE LET S == ByteStrings(n - 1) IN S \cup {Append(s, b) : s \in S, b \in Alphabet}

\* What may stand inside a JSON string here: a brace (a plain byte for the
\* string) or an escape pair \" or \\.
StrItems == {<<LBRACE>>, <<RBRACE>>, <<BACKSLASH, QUOTE>>, <<BACKSLASH, BACKSLASH>>}

RECURSIVE StrBodies(_)
\* String bodies of exactly n items.
StrBodies(n) ==
    IF n = 0 THEN {<<>>}
    ELSE {b \o it : b \in StrBodies(n - 1), it \in StrItems}

Quoted(body) == <<QUOTE>> \o body \o <<QUOTE>>

RECURSIVE JsonObjects(_, _)
RECURSIVE JsonValues(_, _)
\* JSON objects nested at most d deep holding at most n string items: {} or
\* {"key":value}.
JsonObjects(d, n) ==
    {<<LBRACE, RBRACE>>} \cup
    UNION {{<<LBRACE>> \o Quoted(k) \o <<58>> \o v \o <<RBRACE>> :
                k \in StrBodies(i), v \in JsonValues(d, n - i)} : i \in 0..n}
\* JSON values: a string, the number 0, or (below the depth bound) an object.
JsonValues(d, n) ==
    UNION {{Quoted(b) : b \in StrBodies(i)} : i \in 0..n}
    \cup {<<48>>}
    \cup (IF d > 1 THEN JsonObjects(d - 1, n) ELSE {})

ValidObjects == JsonObjects(MaxDepth, MaxItems)

Inputs == ValidObjects \cup ByteStrings(MaxLen)

-----------------------------------------------------------------------------
\* The message and content model (src/src/anthropic.rs).

\* Option<T>: None is the empty sequence, Some(x) the sequence of x alone.
None == <<>>
Some(x) == <<x>>

\* Result<T, E>
Ok(x) == [tag |-> "Ok", value |-> x]
Err(e) == [tag |-> "Err", error |-> e]

\* Content::Text, Content::Image, Content::ToolUse, Content::ToolResult
Text(t) == [kind |-> "Text", text |-> t]
Image == [kind |-> "Image"]
ContentToolUse(tu) == [kind |-> "ToolUse", tool_use |-> tu]
ContentToolResult(tr) == [kind |-> "ToolResult", tool_result |-> tr]

\* Content::from_text
Content_from_text(t) == Text(t)

\* Message::from_text
Message_from_text(role, t) == [role |-> role, content |-> <<Content_from_text(t)>>]

\* ToolResultContent::String, ToolResultContent::Content
ToolResultContent_String(s) == [variant |-> "String", string |-> s]
ToolResultContent_Content(cs) == [variant |-> "Content", content |-> cs]

\* ToolResult::success, ToolResult::error, ToolResult::unknown_tool, given
\* a string: content.into() is ToolResultContent::String.  The text
\* format!("Unknown tool: {}", name) is the pair of its two parts.
ToolResult_success(id, c) ==
    [tool_use_id |-> id, content |-> ToolResultContent_String(c), is_error |-> None]
ToolResult_error(id, c) ==
    [tool_use_id |-> id, content |-> ToolResultContent_String(c), is_error |-> Some(TRUE)]
\* An unknown_tool that reports success.
ToolResult_unknown_tool_success(id, name) == ToolResult_success(id, <<"Unknown tool: ", name>>)

ToolResult_unknown_tool(id, name) == ToolResult_error(id, <<"Unknown tool: ", name>>)

\* struct Tool
Tool(name) == [name |-> name, description |-> "d", input_schema |-> "object"]

-----------------------------------------------------------------------------
\* Decoding a response (src/src/lib.rs, src/src/anthropic.rs).  A raw
\* response is what serde_json makes of the text: syntax "malformed" (no
\* JSON), "value" (JSON, not an object) or "object", whose members are the
\* other fields of the record.

\* Role, #[serde(rename_all = "snake_case")]
DecodeRole(w) ==
    IF w = "user" THEN Some("User")
    ELSE IF w = "assistant" THEN Some("Assistant")
    ELSE None

RECURSIVE DecodeContent(_)
RECURSIVE DecodeContents(_)

\* ToolResultContent, #[serde(untagged)]: an array of contents is Content,
\* a string is String, nothing else matches.  A JSON value whose type the
\* decoder has to find out is the record of its type and what it holds.
DecodeToolResultContent(w) ==
    CASE w.json = "array" ->
            IF DecodeContents(w.items) = None THEN None
            ELSE Some(ToolResultContent_Content(DecodeContents(w.items)[1]))
      [] w.json = "string" -> Some(ToolResultContent_String(w.value))
      [] OTHER -> None

\* Content, #[serde(tag = "type", rename_all = "snake_case")]
DecodeContent(w) ==
    IF "type" \notin DOMAIN w THEN None
    ELSE CASE w.type = "text" ->
                IF "text" \in DOMAIN w THEN Some(Text(w.text)) ELSE None
           [] w.type = "image" -> Some(Image)
           [] w.type = "tool_use" ->
                IF {"id", "name", "input"} \subseteq DOMAIN w
                THEN Some(ContentToolUse([id |-> w.id, name |-> w.name, input |-> w.input]))
                ELSE None
           [] w.type = "tool_result" ->
                IF /\ {"tool_use_id", "content"} \subseteq DOMAIN w
                   /\ DecodeToolResultContent(w.content) # None
                THEN Some(ContentToolResult(
                        [tool_use_id |-> w.tool_use_id,
                         content |-> DecodeToolResultContent(w.content)[1],
                         is_error |-> IF "is_error" \in DOMAIN w THEN Some(w.is_error) ELSE None]))
                ELSE None
           [] OTHER -> None

\* Vec<Content>: every piece must decode.
DecodeContents(ws) ==
    IF \A i \in 1..Len(ws) : DecodeContent(ws[i]) # None
    THEN Some([i \in 1..Len(ws) |-> DecodeContent(ws[i])[1]])
    ELSE None

\* StopReason, #[serde(rename_all = "snake_case")]
StopReasons == {"end_turn", "max_tokens", "stop_sequence", "tool_use", "pause_turn", "refusal"}

\* MessagesResponse with its flattened Message.
DecodeMessagesResponse(v) ==
    IF /\ {"id", "model", "stop_reason", "usage", "role", "content"} \subseteq DOMAIN v
       /\ v.stop_reason \in StopReasons
       /\ DecodeRole(v.role) # None
       /\ DecodeContents(v.content) # None
    THEN Some([id |-> v.id, model |-> v.model, stop_reason |-> v.stop_reason,
               stop_sequence |-> IF "stop_sequence" \in DOMAIN v THEN v.stop_sequence ELSE None,
               usage |-> v.usage,
               message |-> [role |-> DecodeRole(v.role)[1],
                            content |-> DecodeContents(v.content)[1]]])
    ELSE None

\* ApiError, #[serde(tag = "type", rename_all = "snake_case")]
ApiErrorOf ==
    [invalid_request_error |-> "InvalidRequestError",
     authentication_error |-> "AuthenticationError",
     permission_error |-> "PermissionError",
     not_found_error |-> "NotFoundError",
     request_too_large |-> "RequestTooLarge",
     rate_limit_error |-> "RateLimitError",
     api_error |-> "ApiError",
     overloaded_error |-> "OverloadedError"]

DecodeApiError(w) ==
    IF "type" \in DOMAIN w /\ w.type \in DOMAIN ApiErrorOf
    THEN Some(ApiErrorOf[w.type]) ELSE None

\* Error::Serde, Error::Api
Serde == [kind |-> "Serde"]
Api(e) == [kind |-> "Api", error |-> e]

\* An ApiResponseHelper::deserialize that takes every error envelope for an
\* error of the provider, whatever its error member is.
ApiResponseHelper_deserialize_lenient(raw) ==
    IF raw.syntax = "malformed" THEN Err(Serde)
    ELSE IF raw.syntax = "object" /\ "type" \in DOMAIN raw THEN
        IF raw.type = "error" THEN
            LET api_error == IF "error" \in DOMAIN raw THEN DecodeApiError(raw.error) ELSE None IN
                IF api_error = None THEN Ok(Err("ApiError")) ELSE Ok(Err(api_error[1]))
        ELSE IF raw.type = "message" THEN
            LET response == DecodeMessagesResponse(raw) IN
                IF response = None THEN Err(Serde) ELSE Ok(Ok(response[1]))
        ELSE Err(Serde)
    ELSE Err(Serde)

\* ApiResponseHelper::deserialize: Ok(Ok(response)), Ok(Err(api error)) or
\* Err(()) for a serde error.
ApiResponseHelper_deserialize(raw) ==
    IF raw.syntax = "malformed" THEN Err(Serde)
    ELSE IF raw.syntax = "object" /\ "type" \in DOMAIN raw THEN
        IF raw.type = "error" THEN
            IF "error" \in DOMAIN raw THEN
                LET api_error == DecodeApiError(raw.error) IN
                    IF api_error = None THEN Err(Serde) ELSE Ok(Err(api_error[1]))
            ELSE Err(Serde)
        ELSE IF raw.type = "message" THEN
            LET response == DecodeMessagesResponse(raw) IN
                IF response = None THEN Err(Serde) ELSE Ok(Ok(response[1]))
        ELSE Err(Serde)
    ELSE Err(Serde)

\* deserialize_response
deserialize_response(raw) ==
    LET helper == ApiResponseHelper_deserialize(raw) IN
        IF helper.tag = "Err" THEN Err(Serde)
        ELSE IF helper.value.tag = "Err" THEN Err(Api(helper.value.error))
        ELSE Ok(helper.value.value)

-----------------------------------------------------------------------------
\* Serializing (src/src/anthropic.rs, the Serialize derives).  The JSON is
\* given as serde_json reads it back: an object is the record of its
\* members, an array a sequence, and a value of a type that has to be found
\* out the record of its type and what it holds.

JsonNull == [json |-> "null"]
JsonString(s) == [json |-> "string", value |-> s]
JsonArray(items) == [json |-> "array", items |-> items]

\* Role, #[serde(rename_all = "snake_case")]
SerializeRole(r) == IF r = "User" THEN "user" ELSE "assistant"

RECURSIVE SerializeContent(_)

\* ToolResultContent, #[serde(untagged)]: the string or the array alone.
SerializeToolResultContent(c) ==
    IF c.variant = "String" THEN JsonString(c.string)
    ELSE JsonArray([i \in 1..Len(c.content) |-> SerializeContent(c.content[i])])

\* A ToolResult that is serialized without its is_error.
SerializeToolResultNoError(tr) ==
    [type |-> "tool_result", tool_use_id |-> tr.tool_use_id,
     content |-> SerializeToolResultContent(tr.content)]

\* ToolResult inside Content: is_error has
\* #[serde(skip_serializing_if = "Option::is_none")].
SerializeToolResult(tr) ==
    IF tr.is_error = None
    THEN [type |-> "tool_result", tool_use_id |-> tr.tool_use_id,
          content |-> SerializeToolResultContent(tr.content)]
    ELSE [type |-> "tool_result", tool_use_id |-> tr.tool_use_id,
          content |-> SerializeToolResultContent(tr.content), is_error |-> tr.is_error[1]]

\* Content, #[serde(tag = "type", rename_all = "snake_case")]
SerializeContent(c) ==
    CASE c.kind = "Text" -> [type |-> "text", text |-> c.text]
      [] c.kind = "Image" -> [type |-> "image"]
      [] c.kind = "ToolUse" ->
            [type |-> "tool_use", id |-> c.tool_use.id, name |-> c.tool_use.name,
             input |-> c.tool_use.input]
      [] c.kind = "ToolResult" -> SerializeToolResult(c.tool_result)

\* Message
SerializeMessage(m) ==
    [role |-> SerializeRole(m.role),
     content |-> [i \in 1..Len(m.content) |-> SerializeContent(m.content[i])]]

\* Message, read back: role and content are required.
DecodeMessage(w) ==
    IF /\ {"role", "content"} \subseteq DOMAIN w
       /\ DecodeRole(w.role) # None
       /\ DecodeContents(w.content) # None
    THEN Some([role |-> DecodeRole(w.role)[1], content |-> DecodeContents(w.content)[1]])
    ELSE None

\* Tool, written and read back: every member is required.
SerializeTool(t) == [name |-> t.name, description |-> t.description, input_schema |-> t.input_schema]
DecodeTool(w) ==
    IF {"name", "description", "input_schema"} \subseteq DOMAIN w
    THEN Some([name |-> w.name, description |-> w.description, input_schema |-> w.input_schema])
    ELSE None

-----------------------------------------------------------------------------
\* Api and MessagesRequestBuilder (src/src/lib.rs).

ANTHROPIC_VERSION == "2023-06-01"
DEFAULT_ENDPOINT_HOST == "api.anthropic.com"
DEFAULT_MODEL == "claude-sonnet-4-20250514"

\* Api::new and its three setters
Api_new(key) ==
    [api_key |-> key, default_model |-> DEFAULT_MODEL, default_max_tokens |-> 1024,
     endpoint_host |-> DEFAULT_ENDPOINT_HOST]
Api_default_model(a, model) == [a EXCEPT !.default_model = model]
Api_default_max_tokens(a, n) == [a EXCEPT !.default_max_tokens = n]
Api_endpoint_host(a, host) == [a EXCEPT !.endpoint_host = host]

\* Api::create_default_headers
create_default_headers(a) ==
    << <<"content-type", "application/json">>,
       <<"anthropic-version", ANTHROPIC_VERSION>>,
       <<"x-api-key", a.api_key>> >>

DecimalDigits == <<"0", "1", "2", "3", "4", "5", "6", "7", "8", "9">>

RECURSIVE u32_to_string(_)
\* u32::to_string: the decimal digits, the most significant first.
u32_to_string(n) ==
    IF n < 10 THEN <<DecimalDigits[n + 1]>>
    ELSE Append(u32_to_string(n \div 10), DecimalDigits[(n % 10) + 1])

\* MessagesRequestBuilder::model, max_tokens, push, push_message
builder_model(b, model) == [b EXCEPT !.model = Some(model)]
builder_max_tokens(b, n) == [b EXCEPT !.max_tokens = Some(n)]
builder_push(b, message) == [b EXCEPT !.messages = Append(b.messages, message)]
builder_push_message(b, role, text) ==
    builder_push(b, [role |-> role, content |-> <<Text(text)>>])

\* A build whose headers always name the defaults of the Api.
build_default_headers(b, a) ==
    [host |-> a.endpoint_host, path |-> "/v1/messages", method |-> "POST",
     headers |-> create_default_headers(a)
                 \o << <<"anthropic-model", a.default_model>>,
                       <<"max-tokens", u32_to_string(a.default_max_tokens)>> >>,
     body |-> [model |-> IF b.model # None THEN b.model[1] ELSE a.default_model,
               max_tokens |-> IF b.max_tokens # None THEN b.max_tokens[1]
                              ELSE a.default_max_tokens,
               messages |-> [i \in 1..Len(b.messages) |-> SerializeMessage(b.messages[i])]]]

\* MessagesRequestBuilder::build, with the headers and the body it
\* serializes.
build(b, a) ==
    LET headers0 == create_default_headers(a)
        headers1 == IF b.model # None
                    THEN Append(headers0, <<"anthropic-model", b.model[1]>>)
                    ELSE Append(headers0, <<"anthropic-model", a.default_model>>)
        headers2 == IF b.max_tokens # None
                    THEN Append(headers1, <<"max-tokens", u32_to_string(b.max_tokens[1])>>)
                    ELSE Append(headers1, <<"max-tokens", u32_to_string(a.default_max_tokens)>>)
    IN [host |-> a.endpoint_host, path |-> "/v1/messages", method |-> "POST",
        headers |-> headers2,
        body |-> [model |-> IF b.model # None THEN b.model[1] ELSE a.default_model,
                  max_tokens |-> IF b.max_tokens # None THEN b.max_tokens[1]
                                 ELSE a.default_max_tokens,
                  messages |-> [i \in 1..Len(b.messages) |-> SerializeMessage(b.messages[i])]]]

-----------------------------------------------------------------------------

\* Conversation (src/src/conversation.rs).  A conversation value is the
\* record of its three fields.

\* Conversation::new
Conversation_new == [system |-> None, messages |-> <<>>, tools |-> <<>>]

\* MessagesRequestBuilder::new and the setters build_message calls.
MessagesRequestBuilder_new ==
    [model |-> None, max_tokens |-> None, messages |-> <<>>, system |-> None, tools |-> None]
builder_set_messages(b, m) == [b EXCEPT !.messages = m]
builder_system(b, sys) == [b EXCEPT !.system = Some(sys)]
builder_set_tools(b, t) == [b EXCEPT !.tools = Some(t)]

\* MessagesRequestBuilder::build: the HttpRequest, its body a MessagesBody
\* (system and tools are left out of the JSON when None).
builder_build(b) ==
    [method |-> "POST", path |-> "/v1/messages",
     body |-> [messages |-> b.messages, system |-> b.system, tools |-> b.tools]]

\* A build_message that builds the request before it pushes the message.
build_message_stale(conv, message) ==
    LET b0 == builder_set_messages(MessagesRequestBuilder_new, conv.messages)
        b1 == IF conv.system # None THEN builder_system(b0, conv.system[1]) ELSE b0
        b2 == IF conv.tools # <<>> THEN builder_set_tools(b1, conv.tools) ELSE b1
    IN [conv |-> [conv EXCEPT !.messages = Append(conv.messages, message)],
        request |-> builder_build(b2)]

\* Conversation::build_message: the conversation after the call and the
\* request returned.
build_message(conv, message) ==
    LET pushed == [conv EXCEPT !.messages = Append(conv.messages, message)]
        b0 == builder_set_messages(MessagesRequestBuilder_new, pushed.messages)
        b1 == IF pushed.system # None THEN builder_system(b0, pushed.system[1]) ELSE b0
        b2 == IF pushed.tools # <<>> THEN builder_set_tools(b1, pushed.tools) ELSE b1
    IN [conv |-> pushed, request |-> builder_build(b2)]

\* Conversation::user_message
user_message(conv, text) == build_message(conv, Message_from_text("User", text))

\* A tool_result that puts its message in the place of the last one.
tool_result_replaces(conv, tr) ==
    LET r == build_message([conv EXCEPT !.messages = SubSeq(conv.messages, 1,
                                                            Len(conv.messages) - 1)],
                           [role |-> "User", content |-> <<ContentToolResult(tr)>>])
    IN r

\* Conversation::tool_result
tool_result(conv, tr) ==
    build_message(conv, [role |-> "User", content |-> <<ContentToolResult(tr)>>])

\* The ToolUse pieces of a message, in order.
ToolUsesOfMessage(m) == SelectSeq(m.content, LAMBDA piece : piece.kind = "ToolUse")

\* Action::HandleAgentMessage
HandleAgentMessage(content) == [kind |-> "HandleAgentMessage", content |-> content]

\* A handle_response that records an (empty) assistant message before it
\* knows whether the response decodes.
handle_response_eager(conv, raw) ==
    LET response == deserialize_response(raw) IN
        IF response.tag = "Err"
        THEN [conv |-> [conv EXCEPT !.messages =
                            Append(conv.messages, [role |-> "Assistant", content |-> <<>>])],
              ret |-> Err(response.error)]
        ELSE [conv |-> [conv EXCEPT !.messages = Append(conv.messages, response.value.message)],
              ret |-> Ok(HandleAgentMessage(response.value.message.content))]

\* A handle_response that keeps only the first content piece.
handle_response_first(conv, raw) ==
    LET response == deserialize_response(raw) IN
        IF response.tag = "Err" THEN [conv |-> conv, ret |-> Err(response.error)]
        ELSE LET c == response.value.message.content
                 kept == IF c = <<>> THEN c ELSE <<c[1]>>
             IN [conv |-> [conv EXCEPT !.messages =
                              Append(conv.messages, [role |-> "Assistant", content |-> kept])],
                 ret |-> Ok(HandleAgentMessage(kept))]

\* Conversation::handle_response: the conversation after the call and the
\* Result returned.
handle_response(conv, raw) ==
    LET response == deserialize_response(raw) IN
        IF response.tag = "Err" THEN [conv |-> conv, ret |-> Err(response.error)]
        ELSE [conv |-> [conv EXCEPT !.messages = Append(conv.messages, response.value.message)],
              ret |-> Ok(HandleAgentMessage(response.value.message.content))]

\* A clear that also forgets the registered tools.
clear_forgets_tools(conv) == [conv EXCEPT !.messages = <<>>, !.tools = <<>>]

\* Conversation::set_system, clear, add_tool, set_tools
set_system(conv, sys) == [conv EXCEPT !.system = Some(sys)]
clear(conv) == [conv EXCEPT !.messages = <<>>]
add_tool(conv, tool) == [conv EXCEPT !.tools = Append(conv.tools, tool)]
set_tools(conv, ts) == [conv EXCEPT !.tools = ts]

-----------------------------------------------------------------------------
\* Conversation::to_json: serde_json::to_writer of the three fields, system
\* as null or the string.
to_json(conv) ==
    [syntax |-> "object",
     system |-> IF conv.system = None THEN JsonNull ELSE JsonString(conv.system[1]),
     messages |-> [i \in 1..Len(conv.messages) |-> SerializeMessage(conv.messages[i])],
     tools |-> [i \in 1..Len(conv.tools) |-> SerializeTool(conv.tools[i])]]

\* Conversation::from_json: serde_json::from_reader.  messages and tools
\* are required and every element has to decode; system may be missing or
\* null.
from_json(doc) ==
    IF doc.syntax # "object" THEN Err(Serde)
    ELSE IF ~({"messages", "tools"} \subseteq DOMAIN doc) THEN Err(Serde)
    ELSE IF "system" \in DOMAIN doc /\ doc.system.json \notin {"null", "string"} THEN Err(Serde)
    ELSE IF \E i \in 1..Len(doc.messages) : DecodeMessage(doc.messages[i]) = None THEN Err(Serde)
    ELSE IF \E i \in 1..Len(doc.tools) : DecodeTool(doc.tools[i]) = None THEN Err(Serde)
    ELSE Ok([system |-> IF "system" \in DOMAIN doc /\ doc.system.json = "string"
                        THEN Some(doc.system.value) ELSE None,
             messages |-> [i \in 1..Len(doc.messages) |-> DecodeMessage(doc.messages[i])[1]],
             tools |-> [i \in 1..Len(doc.tools) |-> DecodeTool(doc.tools[i])[1]]])

-----------------------------------------------------------------------------
\* The streaming example (src/examples/streaming.rs) and the events it is
\* given (src/src/anthropic.rs).  A text is the sequence of its characters.

\* StreamEvent and what else the event source yields: Event::Open, a
\* message that deserialize_event rejects, and an error of the source.
Open == [type |-> "open"]
MessageStart == [type |-> "message_start"]
ContentBlockStart(i, block) == [type |-> "content_block_start", index |-> i, content_block |-> block]
ContentBlockDelta(i, delta) == [type |-> "content_block_delta", index |-> i, delta |-> delta]
ContentBlockStop(i) == [type |-> "content_block_stop", index |-> i]
MessageDeltaEvent(delta) == [type |-> "message_delta", delta |-> delta]
MessageStop == [type |-> "message_stop"]
Ping == [type |-> "ping"]
ErrorEvent == [type |-> "error", error |-> "OverloadedError"]
Unknown == [type |-> "unknown"]
ParseError == [type |-> "parse_error"]
SourceError == [type |-> "source_error"]

\* Delta
TextDelta(t) == [type |-> "text_delta", text |-> t]
InputJsonDelta(t) == [type |-> "input_json_delta", partial_json |-> t]
ThinkingDelta(t) == [type |-> "thinking_delta", thinking |-> t]
SignatureDelta(t) == [type |-> "signature_delta", signature |-> t]

\* MessageDelta
MessageDelta(stop_reason, stop_sequence) ==
    [stop_reason |-> stop_reason, stop_sequence |-> stop_sequence]

\* An update that takes the delta's fields as they are.
StreamingMessage_update_overwrites(m, delta) ==
    [m EXCEPT !.stop_reason = delta.stop_reason, !.stop_sequence = delta.stop_sequence]

\* StreamingMessage::update
StreamingMessage_update(m, delta) ==
    LET m1 == IF delta.stop_reason # None
              THEN [m EXCEPT !.stop_reason = Some(delta.stop_reason[1])] ELSE m
    IN IF delta.stop_sequence # None
       THEN [m1 EXCEPT !.stop_sequence = Some(delta.stop_sequence[1])] ELSE m1

\* A pass in which a ping or an unknown event empties current_text.
StreamStep_ping_flushes(content, text, e) ==
    CASE e.type = "content_block_start" ->
            [assistant_content |-> content,
             current_text |-> IF e.content_block.kind = "Text"
                              THEN text \o e.content_block.text ELSE text,
             break |-> FALSE]
      [] e.type = "content_block_delta" ->
            [assistant_content |-> content,
             current_text |-> IF e.delta.type = "text_delta" THEN text \o e.delta.text ELSE text,
             break |-> FALSE]
      [] e.type = "content_block_stop" ->
            IF text # <<>>
            THEN [assistant_content |-> Append(content, Content_from_text(text)),
                  current_text |-> <<>>, break |-> FALSE]
            ELSE [assistant_content |-> content, current_text |-> text, break |-> FALSE]
      [] e.type \in {"message_stop", "error", "source_error"} ->
            [assistant_content |-> content, current_text |-> text, break |-> TRUE]
      [] e.type \in {"ping", "unknown"} ->
            [assistant_content |-> content, current_text |-> <<>>, break |-> FALSE]
      [] OTHER ->
            [assistant_content |-> content, current_text |-> text, break |-> FALSE]

\* One pass of the while loop over the events, lines 71 to 158: the two
\* buffers after it and whether it breaks out of the loop.
StreamStep(content, text, e) ==
    CASE e.type = "content_block_start" ->
            [assistant_content |-> content,
             current_text |-> IF e.content_block.kind = "Text"
                              THEN text \o e.content_block.text ELSE text,
             break |-> FALSE]
      [] e.type = "content_block_delta" ->
            [assistant_content |-> content,
             current_text |-> IF e.delta.type = "text_delta" THEN text \o e.delta.text ELSE text,
             break |-> FALSE]
      [] e.type = "content_block_stop" ->
            IF text # <<>>
            THEN [assistant_content |-> Append(content, Content_from_text(text)),
                  current_text |-> <<>>, break |-> FALSE]
            ELSE [assistant_content |-> content, current_text |-> text, break |-> FALSE]
      [] e.type \in {"message_stop", "error", "source_error"} ->
            [assistant_content |-> content, current_text |-> text, break |-> TRUE]
      [] OTHER ->
            [assistant_content |-> content, current_text |-> text, break |-> FALSE]

-----------------------------------------------------------------------------

\* What the callers of a conversation give it.

Texts == {"Hello!"}
Systems == {"You are a helpful assistant."}
ToolSet == {Tool("get_datetime")}

RECURSIVE ToolSeqs(_)
\* Tool lists of at most n tools.
ToolSeqs(n) ==
    IF n = 0 THEN {<<>>}
    ELSE LET S == ToolSeqs(n - 1) IN S \cup {Append(ts, t) : ts \in S, t \in ToolSet}

\* The id the provider gives the tool use at position i of a response.
ToolUseId(i) == <<"toolu", i>>

WireText == [type |-> "text", text |-> "ok"]
\* What the model asks for: the name of a tool and the input, a JSON object
\* given as the set of its members' names.
ToolCall(name, members) == [name |-> name, input |-> members]

WireToolUse(i, call) ==
    [type |-> "tool_use", id |-> ToolUseId(i), name |-> call.name, input |-> call.input]

RECURSIVE WireContents(_, _)
\* Response contents of exactly n pieces, each a text or one of the tool
\* calls.
WireContents(n, calls) ==
    IF n = 0 THEN {<<>>}
    ELSE {Append(c, p) : c \in WireContents(n - 1, calls),
                         p \in {WireText} \cup {WireToolUse(n, call) : call \in calls}}

\* A response of type message as the API sends it.
RawMessage(role, content) ==
    [syntax |-> "object", type |-> "message", id |-> "msg_1", model |-> "m",
     stop_reason |-> "end_turn", stop_sequence |-> None,
     usage |-> [input_tokens |-> 1, output_tokens |-> 1],
     role |-> role, content |-> content]

\* An error envelope with the given error tag.
RawError(tag) == [syntax |-> "object", type |-> "error", error |-> [type |-> tag, message |-> "m"]]

MessageResponses(calls) ==
    {RawMessage("assistant", c) : c \in UNION {WireContents(n, calls) : n \in 0..MaxPieces}}
    \cup {RawMessage("user", <<WireText>>)}

ProviderErrors == {RawError("overloaded_error"), RawError("invalid_request_error")}

\* Bodies that do not decode: no JSON, JSON that is no object, no type, an
\* unknown type, an error envelope without error, with an unknown or a
\* missing error tag, and messages with a missing id, an unknown role, an
\* unknown content type or an unknown stop reason.
UndecodableResponses ==
    {[syntax |-> "malformed"],
     [syntax |-> "value"],
     [syntax |-> "object", id |-> "msg_1"],
     [syntax |-> "object", type |-> "ping"],
     [syntax |-> "object", type |-> "error"],
     RawError("teapot_error"),
     [syntax |-> "object", type |-> "error", error |-> [message |-> "m"]],
     [syntax |-> "object", type |-> "message", model |-> "m", stop_reason |-> "end_turn",
      usage |-> [input_tokens |-> 1, output_tokens |-> 1],
      role |-> "assistant", content |-> <<WireText>>],
     RawMessage("system", <<WireText>>),
     RawMessage("assistant", <<[type |-> "video"]>>),
     [RawMessage("assistant", <<WireText>>) EXCEPT !.stop_reason = "null"]}

\* The tool call of the responses a conversation is given.
ConvCalls == {ToolCall("get_datetime", {})}

\* The well-formed responses of type message a conversation is given.
WellFormedResponses == MessageResponses(ConvCalls)

RawResponses == WellFormedResponses \cup ProviderErrors \cup UndecodableResponses

ToolResults ==
    {ToolResult_success(ToolUseId(1), "result"), ToolResult_unknown_tool(ToolUseId(2), "nope")}

-----------------------------------------------------------------------------
\* The scanner and a caller that feeds it the input in slices.

\* The scanner of a model that is about the conversation: new, and given
\* nothing.
ScanIdle ==
    /\ state = NewScanner.state
    /\ brace_depth = NewScanner.brace_depth
    /\ input = <<>>
    /\ pos = 0
    /\ lastStart = 0
    /\ lastLen = 0
    /\ lastResult = NeedsMore
    /\ preState = NewScanner.state
    /\ preDepth = NewScanner.brace_depth
    /\ founds = <<>>
    /\ errors = 0

\* The conversation of a model that is about the scanner: new, and never
\* called.
ConvIdle ==
    /\ system = Conversation_new.system
    /\ messages = Conversation_new.messages
    /\ tools = Conversation_new.tools
    /\ lastOp = "new"
    /\ lastArg = None
    /\ lastRequest = None
    /\ lastReturn = None

\* The streaming example of a model that is not about it: not started.
StreamIdle ==
    /\ spc = "top"
    /\ events = <<>>
    /\ epos = 0
    /\ assistant_content = <<>>
    /\ current_text = <<>>
    /\ streaming_message = None

\* The request builder of a model that is not about it: new, for the
\* default Api.
BuildIdle ==
    /\ api = Api_new("key")
    /\ builder = MessagesRequestBuilder_new

\* The assistant example of a model that is not about it: not started.
CallerIdle ==
    /\ pc = "top"
    /\ pending_request = None
    /\ sent = None
    /\ rawBody = None
    /\ contents = <<>>
    /\ idx = 0
    /\ respLen = 0
    /\ built = 0
    /\ variant = "assistant"
    /\ retries_left = 0
    /\ attempts = <<>>
    /\ responses = <<>>
    /\ waits = <<>>
    /\ sendResult = None

\* The callers of a model that is not about them: not started.
LoopIdle ==
    /\ CallerIdle
    /\ StreamIdle
    /\ BuildIdle

InitScan ==
    /\ state = NewScanner.state
    /\ brace_depth = NewScanner.brace_depth
    /\ input \in Inputs
    /\ pos = 0
    /\ lastStart = 0
    /\ lastLen = 0
    /\ lastResult = NeedsMore
    /\ preState = NewScanner.state
    /\ preDepth = NewScanner.brace_depth
    /\ founds = <<>>
    /\ errors = 0
    /\ ConvIdle
    /\ LoopIdle

\* The slice input[from .. from + n - 1] (0-based from).
Slice(from, n) == SubSeq(input, from + 1, from + n)

\* One call scanner.scan(&input[pos .. pos + n]).  On Found(k) the caller
\* keeps the bytes after the split point for the next call; otherwise the
\* whole slice has been handed over.
Feed(n) ==
    /\ pos + n <= Len(input)
    /\ LET out == Scan(state, brace_depth, Slice(pos, n)) IN
        /\ state' = out.state
        /\ brace_depth' = out.brace_depth
        /\ lastResult' = out.result
        /\ pos' = IF out.result.kind = "Found" THEN pos + out.result.offset ELSE pos + n
        /\ founds' = IF out.result.kind = "Found"
                     THEN Append(founds, pos + out.result.offset) ELSE founds
        /\ errors' = IF out.result.kind = "Error" THEN errors + 1 ELSE errors
    /\ lastStart' = pos
    /\ lastLen' = n
    /\ preState' = state
    /\ preDepth' = brace_depth
    /\ UNCHANGED <<input, convVars, convLast, loopVars>>

FeedChunk == \E n \in 1..Len(input) : Feed(n)

FeedEmpty == Feed(0)

NextScan == FeedChunk \/ FeedEmpty

SpecScan == InitScan /\ [][NextScan]_vars

-----------------------------------------------------------------------------
\* A conversation and a caller that calls its methods in any order.

\* The conversation value held in the variables.
Conv == [system |-> system, messages |-> messages, tools |-> tools]

InitConv ==
    /\ ScanIdle
    /\ ConvIdle
    /\ LoopIdle

\* The conversation becomes conv; the call op(arg) returned request and ret.
Called(op, arg, conv, request, ret) ==
    /\ system' = conv.system
    /\ messages' = conv.messages
    /\ tools' = conv.tools
    /\ lastOp' = op
    /\ lastArg' = Some(arg)
    /\ lastRequest' = request
    /\ lastReturn' = ret
    /\ UNCHANGED scanVars

SetSystem ==
    /\ \E sys \in Systems : Called("set_system", sys, set_system(Conv, sys), None, None)
    /\ UNCHANGED loopVars

UserMessage ==
    /\ Len(messages) < MaxHistory
    /\ \E text \in Texts :
        LET r == user_message(Conv, text) IN
            Called("user_message", text, r.conv, Some(r.request), None)
    /\ UNCHANGED loopVars

ToolResult ==
    /\ Len(messages) < MaxHistory
    /\ \E tr \in ToolResults :
        LET r == tool_result(Conv, tr) IN
            Called("tool_result", tr, r.conv, Some(r.request), None)
    /\ UNCHANGED loopVars

HandleResponse ==
    /\ Len(messages) < MaxHistory
    /\ \E response \in RawResponses :
        LET r == handle_response(Conv, response) IN
            Called("handle_response", response, r.conv, None, Some(r.ret))
    /\ UNCHANGED loopVars

Clear ==
    /\ Called("clear", "-", clear(Conv), None, None)
    /\ UNCHANGED loopVars

AddTool ==
    /\ Len(tools) < MaxTools
    /\ \E tool \in ToolSet : Called("add_tool", tool, add_tool(Conv, tool), None, None)
    /\ UNCHANGED loopVars

SetTools ==
    /\ \E ts \in ToolSeqs(MaxTools) : Called("set_tools", ts, set_tools(Conv, ts), None, None)
    /\ UNCHANGED loopVars

NextConv ==
    \/ SetSystem
    \/ UserMessage
    \/ ToolResult
    \/ HandleResponse
    \/ Clear
    \/ AddTool
    \/ SetTools

SpecConv == InitConv /\ [][NextConv]_vars

-----------------------------------------------------------------------------
\* The caller loop of src/examples/assistant/main.rs (the loop of
\* src/examples/full_featured_chat.rs is the same).

\* Conversation::tool_results, which the loop calls with the results it has
\* collected: one User message holding them all, then the request.
tool_results(conv, trs) ==
    build_message(conv, [role |-> "User",
                         content |-> [i \in 1..Len(trs) |-> ContentToolResult(trs[i])]])

\* What the model may ask for: two tools the loop knows, one of them also
\* with an input that lacks its url, and one tool it does not know.
LoopCalls ==
    {ToolCall("get_datetime", {}), ToolCall("fetch_page", {"url"}),
     ToolCall("fetch_page", {}), ToolCall("nope", {})}

\* What send_request may return as the body of a successful response.
LoopResponses ==
    MessageResponses(LoopCalls) \cup ProviderErrors \cup {[syntax |-> "malformed"]}

\* serde_json::from_value(input).unwrap() of the web_search and fetch_page
\* arms panics when the input lacks the member the tool needs.
InputUnwrapPanics(tu) ==
    \/ tu.name = "web_search" /\ "query" \notin tu.input
    \/ tu.name = "fetch_page" /\ "url" \notin tu.input

\* The ToolResults the match on the tool's name may push for a ToolUse:
\* get_datetime succeeds, web_search and fetch_page succeed or fail, any
\* other name is an unknown tool.
ToolOutcomes(tu) ==
    IF tu.name = "get_datetime" THEN {ToolResult_success(tu.id, "now")}
    ELSE IF tu.name \in {"web_search", "fetch_page"}
    THEN {ToolResult_success(tu.id, "content"), ToolResult_error(tu.id, "error")}
    ELSE {ToolResult_unknown_tool(tu.id, tu.name)}

\* main up to the loop: a new conversation with a system prompt and three
\* tools, and no pending request.
InitLoop ==
    /\ ScanIdle
    /\ system = Some("You are a helpful personal assistant.")
    /\ messages = <<>>
    /\ tools = <<Tool("web_search"), Tool("get_datetime"), Tool("fetch_page")>>
    /\ lastOp = "add_tool"
    /\ lastArg = Some(Tool("fetch_page"))
    /\ lastRequest = None
    /\ lastReturn = None
    /\ LoopIdle

\* No request is pending and the user enters a line: user_message.
GetUserInput ==
    /\ pc = "top"
    /\ pending_request = None
    /\ Len(messages) < MaxLoopHistory
    /\ \E line \in Texts :
        LET r == user_message(Conv, line) IN
            /\ Called("user_message", line, r.conv, Some(r.request), None)
            /\ pending_request' = Some(r.request)
    /\ UNCHANGED <<streamVars, buildVars, pc, sent, rawBody, contents, idx, respLen, built, sendVars>>

\* No request is pending and the user quits.
Quit ==
    /\ pc = "top"
    /\ pending_request = None
    /\ pc' = "done"
    /\ UNCHANGED <<streamVars, buildVars, scanVars, convVars, convLast,
                   pending_request, sent, rawBody, contents, idx, respLen, built, sendVars>>

\* pending_request.take() and send_request(..).expect(..): a body comes back,
\* or the call fails and main panics.
SendRequest ==
    /\ pc = "top"
    /\ pending_request # None
    /\ Len(messages) < MaxLoopHistory
    /\ pending_request' = None
    /\ sent' = pending_request
    /\ \/ \E response \in LoopResponses : rawBody' = Some(response) /\ pc' = "handle"
       \/ rawBody' = None /\ pc' = "panicked"
    /\ UNCHANGED <<streamVars, buildVars, scanVars, convVars, convLast, contents, idx, respLen, built, sendVars>>

\* conversation.handle_response(&raw).expect(..) and the start of the for
\* loop over the contents.
HandleRaw ==
    /\ pc = "handle"
    /\ LET r == handle_response(Conv, rawBody[1]) IN
        /\ Called("handle_response", rawBody[1], r.conv, None, Some(r.ret))
        /\ IF r.ret.tag = "Err"
           THEN /\ pc' = "panicked"
                /\ UNCHANGED <<contents, respLen>>
           ELSE /\ contents' = r.ret.value.content
                /\ respLen' = Len(r.conv.messages)
                /\ pc' = IF r.ret.value.content = <<>> THEN "top" ELSE "items"
    /\ idx' = 0
    /\ built' = 0
    /\ UNCHANGED <<streamVars, buildVars, pending_request, sent, rawBody, sendVars>>

\* One pass of the for loop: a fresh tool_results vector, a result pushed if
\* the item is a ToolUse (or a panic on its input), and, if the vector is
\* not empty, pending_request = Some(conversation.tool_results(..)).
ProcessItem ==
    /\ pc = "items"
    /\ LET item == contents[idx + 1] IN
        IF item.kind = "ToolUse" /\ InputUnwrapPanics(item.tool_use)
        THEN /\ pc' = "panicked"
             /\ UNCHANGED <<scanVars, convVars, convLast, pending_request, built, idx>>
        ELSE /\ IF item.kind = "ToolUse"
                THEN \E tr \in ToolOutcomes(item.tool_use) :
                        LET results == <<tr>>
                            r == tool_results(Conv, results) IN
                            /\ Called("tool_results", results, r.conv, Some(r.request), None)
                            /\ pending_request' = Some(r.request)
                            /\ built' = built + 1
                ELSE UNCHANGED <<scanVars, convVars, convLast, pending_request, built>>
             /\ idx' = idx + 1
             /\ pc' = IF idx + 1 = Len(contents) THEN "top" ELSE "items"
    /\ UNCHANGED <<streamVars, buildVars, sent, rawBody, contents, respLen, sendVars>>

NextLoop ==
    \/ GetUserInput
    \/ Quit
    \/ SendRequest
    \/ HandleRaw
    \/ ProcessItem

SpecLoop == InitLoop /\ [][NextLoop]_vars

-----------------------------------------------------------------------------
\* deserialize_response on its own (src/src/lib.rs): a caller that gives it
\* bodies of every shape.

\* The type member of a body: none, or one of these values.
TypeMembers == {"absent", "message", "error", "ping"}

\* The error tags the API defines.
RecognisedTags ==
    {"invalid_request_error", "authentication_error", "permission_error", "not_found_error",
     "request_too_large", "rate_limit_error", "api_error", "overloaded_error"}

\* The error member of a body: none, an error object with a recognised tag,
\* with an unknown tag, or with no tag.
ErrorMembers ==
    {None} \cup {Some([type |-> tag, message |-> "m"]) : tag \in RecognisedTags \cup {"teapot_error"}}
    \cup {Some([message |-> "m"])}

\* The members of a message that decodes: a role and a content.
GoodPayloads ==
    {[role |-> "assistant", content |-> c] :
        c \in UNION {WireContents(n, LoopCalls) : n \in 0..MaxPieces}}
    \cup {[role |-> "user", content |-> <<WireText>>]}

\* Message members that do not decode: an unknown role, a content piece of an
\* unknown type, a text piece without text, a tool use without id.
BadPayloads ==
    {[role |-> "system", content |-> <<WireText>>],
     [role |-> "assistant", content |-> <<[type |-> "video"]>>],
     [role |-> "assistant", content |-> <<[type |-> "text"]>>],
     [role |-> "assistant", content |-> <<[type |-> "tool_use", name |-> "nope", input |-> {}]>>]}

\* The message members a body may have: none, some that decode, some that
\* do not.
PayloadMembers == {None} \cup {Some(p) : p \in GoodPayloads \cup BadPayloads}

\* The JSON object with the given type member ("absent": without it), error
\* member and message members (None: without them).
Body(t, e, p) ==
    LET b0 == [syntax |-> "object"]
        b1 == IF t = "absent" THEN b0 ELSE b0 @@ [type |-> t]
        b2 == IF e = None THEN b1 ELSE b1 @@ [error |-> e[1]]
    IN IF p = None THEN b2
       ELSE b2 @@ [id |-> "msg_1", model |-> "m", stop_reason |-> "end_turn",
                   stop_sequence |-> None,
                   usage |-> [input_tokens |-> 1, output_tokens |-> 1],
                   role |-> p[1].role, content |-> p[1].content]

\* Bodies tagged message that decode.
DecodableMessages ==
    {Body("message", e, Some(p)) : e \in ErrorMembers, p \in GoodPayloads}

\* Error envelopes with a recognised tag.
RecognisedErrors ==
    {Body("error", Some([type |-> tag, message |-> "m"]), p) :
        tag \in RecognisedTags, p \in PayloadMembers}

\* Every body deserialize_response is given.
DecodeInputs ==
    {[syntax |-> "malformed"], [syntax |-> "value"]}
    \cup {Body(t, e, p) : t \in TypeMembers, e \in ErrorMembers, p \in PayloadMembers}
    \cup {[Body("message", None, Some(p)) EXCEPT !.stop_reason = "null"] : p \in GoodPayloads}

InitDecode ==
    /\ ScanIdle
    /\ ConvIdle
    /\ LoopIdle

\* The one call of deserialize_response of a behaviour (the function keeps
\* no state, so a second call shows nothing new).
Deserialize ==
    /\ lastOp = "new"
    /\ \E json \in DecodeInputs :
        /\ lastOp' = "deserialize_response"
        /\ lastArg' = Some(json)
        /\ lastReturn' = Some(deserialize_response(json))
    /\ UNCHANGED <<scanVars, convVars, loopVars, lastRequest>>

NextDecode == Deserialize

SpecDecode == InitDecode /\ [][NextDecode]_vars

-----------------------------------------------------------------------------
\* A tool round trip through a conversation (src/src/conversation.rs): the
\* four calls of a turn in which the model uses one tool.

\* The tool uses among the pieces of a response.
WireToolUses(c) == SelectSeq(c, LAMBDA w : w.type = "tool_use")

\* Responses of an assistant that uses exactly one tool.
OneToolUseResponses ==
    {resp \in MessageResponses(LoopCalls) :
        resp.role = "assistant" /\ Len(WireToolUses(resp.content)) = 1}

\* Responses of an assistant that uses no tool.
FinalResponses ==
    {resp \in MessageResponses(LoopCalls) :
        resp.role = "assistant" /\ Len(WireToolUses(resp.content)) = 0}

InitRoundTrip ==
    /\ ScanIdle
    /\ ConvIdle
    /\ LoopIdle

\* Before the first turn the caller may set the system prompt and add tools.
RoundTripSetSystem ==
    /\ messages = <<>>
    /\ system = None
    /\ SetSystem

RoundTripAddTool ==
    /\ messages = <<>>
    /\ AddTool

\* 1: the user's text.
RoundTripUserMessage ==
    /\ messages = <<>>
    /\ \E text \in Texts :
        LET r == user_message(Conv, text) IN
            Called("user_message", text, r.conv, Some(r.request), None)
    /\ UNCHANGED loopVars

\* 2: the response that asks for one tool.
RoundTripToolUse ==
    /\ lastOp = "user_message"
    /\ \E response \in OneToolUseResponses :
        LET r == handle_response(Conv, response) IN
            Called("handle_response", response, r.conv, None, Some(r.ret))
    /\ UNCHANGED loopVars

\* 3: the result of that tool, successful or failed.
RoundTripToolResult ==
    /\ lastOp = "handle_response"
    /\ Len(messages) = 2
    /\ LET id == ToolUsesOfMessage(messages[2])[1].tool_use.id IN
        \E tr \in {ToolResult_success(id, "result"), ToolResult_error(id, "error")} :
            LET r == tool_result(Conv, tr) IN
                Called("tool_result", tr, r.conv, Some(r.request), None)
    /\ UNCHANGED loopVars

\* 4: the final response.
RoundTripFinal ==
    /\ lastOp = "tool_result"
    /\ \E response \in FinalResponses :
        LET r == handle_response(Conv, response) IN
            Called("handle_response", response, r.conv, None, Some(r.ret))
    /\ UNCHANGED loopVars

NextRoundTrip ==
    \/ RoundTripSetSystem
    \/ RoundTripAddTool
    \/ RoundTripUserMessage
    \/ RoundTripToolUse
    \/ RoundTripToolResult
    \/ RoundTripFinal

SpecRoundTrip == InitRoundTrip /\ [][NextRoundTrip]_vars

-----------------------------------------------------------------------------
\* send_request (src/examples/assistant/main.rs and
\* src/examples/full_featured_chat.rs) and a server that answers each attempt.

\* The characters of a retry-after header value; "0xE9" is a byte that is no
\* visible ASCII.
DigitValue == [c \in {"0", "1", "2", "3"} |-> CASE c = "0" -> 0 [] c = "1" -> 1
                                                   [] c = "2" -> 2 [] c = "3" -> 3]

\* HeaderValue::to_str: the text, if every byte is visible ASCII.
HeaderValue_to_str(v) ==
    IF \E i \in 1..Len(v) : v[i] = "0xE9" THEN None ELSE Some(v)

RECURSIVE DigitsValue(_, _)
\* The number the digits of t stand for, after the number acc: None if one
\* of them is no digit.
DigitsValue(t, acc) ==
    IF t = <<>> THEN Some(acc)
    ELSE IF t[1] \in DOMAIN DigitValue
    THEN DigitsValue(Tail(t), acc * 10 + DigitValue[t[1]])
    ELSE None

\* str::parse::<u64>: an optional plus sign and at least one digit, nothing
\* else.
parse_u64(t) ==
    LET digits == IF t # <<>> /\ t[1] = "+" THEN Tail(t) ELSE t IN
        IF digits = <<>> THEN None ELSE DigitsValue(digits, 0)

\* A retry_after that does not look at the header.
retry_after_fixed(resp) == 1

\* The retry_after of send_request: the header read as a number of seconds,
\* 1 without a header that reads as one.
retry_after(resp) ==
    IF resp.retry_after = None THEN 1
    ELSE LET text == HeaderValue_to_str(resp.retry_after[1]) IN
            IF text = None THEN 1
            ELSE LET n == parse_u64(text[1]) IN
                    IF n = None THEN 1 ELSE n[1]

\* StatusCode::is_success, and the statuses Response::error_for_status
\* turns into an error.
is_success(status) == status \in 200..299
is_client_or_server_error(status) == status \in 400..599

\* The Err values of send_request: the text of each carries what the record
\* holds.
FailedToSend == [kind |-> "FailedToSend"]
FailedToReadBody == [kind |-> "FailedToReadBody"]
RateLimitExceeded == [kind |-> "RateLimitExceeded"]
RequestFailed(status, text) == [kind |-> "RequestFailed", status |-> status, text |-> text]

\* What becomes of a response that is no rate-limit signal: main.rs reports
\* every status that is no success with the body (or a note that the body
\* could not be read); full_featured_chat.rs reports the statuses 400 to 599
\* with the status alone and reads the body of every other response.
not_rate_limited(v, resp) ==
    IF v = "assistant" THEN
        IF ~is_success(resp.status)
        THEN Err(RequestFailed(resp.status,
                               IF resp.body = None THEN Some("(failed to fetch response text)")
                               ELSE resp.body))
        ELSE IF resp.body = None THEN Err(FailedToReadBody) ELSE Ok(resp.body[1])
    ELSE
        IF is_client_or_server_error(resp.status) THEN Err(RequestFailed(resp.status, None))
        ELSE IF resp.body = None THEN Err(FailedToReadBody) ELSE Ok(resp.body[1])

\* A pass of the while loop that takes a request that could not be sent for
\* a rate-limit signal without a header.
attempt_retries_transport(v, retries, executed) ==
    IF executed.tag = "Err" \/ executed.value.status \in {429, 420}
    THEN [retries_left |-> retries - 1,
          sleep |-> Some(IF executed.tag = "Err" THEN 1 ELSE retry_after(executed.value)),
          ret |-> IF retries - 1 > 0 THEN None ELSE Some(Err(RateLimitExceeded))]
    ELSE [retries_left |-> retries, sleep |-> None,
          ret |-> Some(not_rate_limited(v, executed.value))]

\* A pass of the while loop that gives a rate-limit signal its try back.
attempt_unbounded(v, retries, executed) ==
    IF executed.tag = "Err" THEN [retries_left |-> retries, sleep |-> None,
                                  ret |-> Some(Err(FailedToSend))]
    ELSE IF executed.value.status \in {429, 420}
    THEN [retries_left |-> retries, sleep |-> Some(retry_after(executed.value)), ret |-> None]
    ELSE [retries_left |-> retries, sleep |-> None,
          ret |-> Some(not_rate_limited(v, executed.value))]

\* One pass of the while loop of send_request, given what client.execute
\* returned, and the loop's end if the pass used the last try: the new
\* retries_left, the seconds slept if any, and the value returned if the
\* function returns.
attempt(v, retries, executed) ==
    IF executed.tag = "Err" THEN [retries_left |-> retries, sleep |-> None,
                                  ret |-> Some(Err(FailedToSend))]
    ELSE IF executed.value.status \in {429, 420}
    THEN [retries_left |-> retries - 1,
          sleep |-> Some(retry_after(executed.value)),
          ret |-> IF retries - 1 > 0 THEN None ELSE Some(Err(RateLimitExceeded))]
    ELSE [retries_left |-> retries, sleep |-> None,
          ret |-> Some(not_rate_limited(v, executed.value))]

\* A try_clone that loses the system prompt.
try_clone_without_system(req) == [req EXCEPT !.body.system = None]

\* Request::try_clone of a request whose body is held in memory.
try_clone(req) == req

\* The retry-after headers a rate-limit signal may carry: none, numbers, and
\* values that are no number.
RetryAfterHeaders ==
    {None, Some(<<"2">>), Some(<<"0">>), Some(<<"1", "0">>), Some(<<"+", "3">>),
     Some(<<>>), Some(<<"+">>), Some(<<"-", "1">>), Some(<<"2", " ">>), Some(<<"0xE9">>)}

\* The rate-limit signals.
RateLimitResponses ==
    {[status |-> st, retry_after |-> h, body |-> Some("slow down")] :
        st \in {429, 420}, h \in RetryAfterHeaders}

\* The other responses, with a body that can be read or not.
OtherResponses ==
    {[status |-> st, retry_after |-> None, body |-> b] :
        st \in {200, 304, 400, 500, 529}, b \in {Some("body"), None}}

\* What client.execute may return.
Executed == {Err("transport")} \cup {Ok(resp) : resp \in RateLimitResponses \cup OtherResponses}

\* main up to the loop, in either program.
InitSend ==
    /\ InitLoop

\* The program whose send_request is called (chosen once, before the first
\* request).
ChooseProgram ==
    /\ pc = "top"
    /\ messages = <<>>
    /\ variant = "assistant"
    /\ variant' = "full_featured_chat"
    /\ UNCHANGED <<streamVars, buildVars, scanVars, convVars, convLast, pc, pending_request, sent, rawBody, contents,
                   idx, respLen, built, retries_left, attempts, responses, waits, sendResult>>

\* pending_request.take() and the entry to send_request.
SendBegin ==
    /\ pc = "top"
    /\ pending_request # None
    /\ pending_request' = None
    /\ sent' = pending_request
    /\ retries_left' = 3
    /\ pc' = "sending"
    /\ UNCHANGED <<streamVars, buildVars, scanVars, convVars, convLast, rawBody, contents, idx, respLen, built,
                   variant, attempts, responses, waits, sendResult>>

\* One pass of the while loop; send_request returns if the pass says so.
SendAttempt ==
    /\ pc = "sending"
    /\ retries_left > 0
    /\ \E executed \in Executed :
        LET a == attempt(variant, retries_left, executed) IN
            /\ attempts' = Append(attempts, try_clone(sent[1]))
            /\ responses' = Append(responses, executed)
            /\ retries_left' = a.retries_left
            /\ waits' = IF a.sleep = None THEN waits ELSE Append(waits, a.sleep[1])
            /\ sendResult' = a.ret
            /\ pc' = IF a.ret = None THEN "sending" ELSE "returned"
    /\ UNCHANGED <<streamVars, buildVars, scanVars, convVars, convLast, pending_request, sent, rawBody, contents,
                   idx, respLen, built, variant>>

NextSend ==
    \/ ChooseProgram
    \/ GetUserInput
    \/ SendBegin
    \/ SendAttempt

SpecSend == InitSend /\ [][NextSend]_vars

\* send_request run to its end: the thread that runs the while loop is not
\* stopped, client.execute returns and thread::sleep ends, so a pass of the
\* loop that can be taken is taken.
SpecSendFair == InitSend /\ [][NextSend]_vars /\ WF_vars(SendAttempt)

-----------------------------------------------------------------------------
\* One turn of the streaming example: a line is read and pushed, the
\* request is sent, the events of the response are reduced one by one, and
\* what was collected is pushed.

\* The most events between message_start and the end of a stream.
MaxBlockEvents == 3

Lines == {<<"h", "i">>}

\* The ToolUse block a content_block_start opens: its input is still empty.
ToolUseBlock == ContentToolUse([id |-> ToolUseId(1), name |-> "get_datetime", input |-> {}])

\* What may come between message_start and the end: blocks 0 and 1 are
\* opened, given deltas and stopped, in any order, and pings and events of
\* an unknown type come in between.
BlockEvents ==
    {ContentBlockStart(0, Text(<<"a">>)),
     ContentBlockStart(1, Text(<<>>)), ContentBlockStart(1, ToolUseBlock),
     ContentBlockDelta(0, TextDelta(<<"c">>)), ContentBlockDelta(1, TextDelta(<<"d">>)),
     ContentBlockDelta(1, InputJsonDelta(<<"{">>)), ContentBlockDelta(1, ThinkingDelta(<<"t">>)),
     ContentBlockDelta(1, SignatureDelta(<<"s">>)),
     ContentBlockStop(0), ContentBlockStop(1), Ping, Unknown}

RECURSIVE EventSeqs(_)
\* The sequences of at most n block events.
EventSeqs(n) ==
    IF n = 0 THEN {<<>>}
    ELSE LET S == EventSeqs(n - 1) IN S \cup {Append(s, e) : s \in S, e \in BlockEvents}

\* How a stream ends: with message_delta and message_stop (after a message
\* that does not parse, or not), with an error event, or with an error of
\* the event source.
StreamEnds ==
    {<<MessageDeltaEvent(MessageDelta(Some("end_turn"), None)), MessageStop>>,
     <<ParseError, MessageStop>>,
     <<ErrorEvent>>,
     <<SourceError>>}

Streams == {<<Open, MessageStart>> \o mid \o end : mid \in EventSeqs(MaxBlockEvents), end \in StreamEnds}

InitStream ==
    /\ ScanIdle
    /\ ConvIdle
    /\ LoopIdle

\* read_next_line gives the one line the user enters; it is pushed, and the
\* request is sent: lines 50 to 66.
StreamReadLine ==
    /\ spc = "top"
    /\ messages = <<>>
    /\ \E line \in Lines, s \in Streams :
        /\ messages' = Append(messages, Message_from_text("User", line))
        /\ events' = s
    /\ epos' = 0
    /\ assistant_content' = <<>>
    /\ current_text' = <<>>
    /\ spc' = "events"
    /\ UNCHANGED <<scanVars, system, tools, convLast, pc, pending_request, sent, rawBody,
                   contents, idx, respLen, built, sendVars, streaming_message, buildVars>>

\* One pass of the while loop.
StreamEvent ==
    /\ spc = "events"
    /\ epos < Len(events)
    /\ LET r == StreamStep(assistant_content, current_text, events[epos + 1]) IN
        /\ assistant_content' = r.assistant_content
        /\ current_text' = r.current_text
        /\ spc' = IF r.break THEN "after" ELSE "events"
    /\ epos' = epos + 1
    /\ UNCHANGED <<scanVars, convVars, convLast, pc, pending_request, sent, rawBody,
                   contents, idx, respLen, built, sendVars, events, streaming_message, buildVars>>

\* After the loop, lines 161 to 168: the assistant message is pushed if
\* anything was collected.
StreamFinish ==
    /\ spc = "after"
    /\ messages' = IF assistant_content # <<>>
                   THEN Append(messages, [role |-> "Assistant", content |-> assistant_content])
                   ELSE messages
    /\ spc' = "top"
    /\ UNCHANGED <<scanVars, system, tools, convLast, pc, pending_request, sent, rawBody,
                   contents, idx, respLen, built, sendVars, events, epos, assistant_content,
                   current_text, streaming_message, buildVars>>

\* read_next_line gives None: main returns.
StreamEndOfInput ==
    /\ spc = "top"
    /\ messages # <<>>
    /\ spc' = "done"
    /\ UNCHANGED <<scanVars, convVars, convLast, pc, pending_request, sent, rawBody,
                   contents, idx, respLen, built, sendVars, events, epos, assistant_content,
                   current_text, streaming_message, buildVars>>

NextStream ==
    \/ StreamReadLine
    \/ StreamEvent
    \/ StreamFinish
    \/ StreamEndOfInput

SpecStream == InitStream /\ [][NextStream]_vars

-----------------------------------------------------------------------------
\* A StreamingMessage that is given message deltas.

StreamingMessages ==
    [id : {"msg_1"}, model : {"m"}, stop_reason : {None, Some("max_tokens")},
     stop_sequence : {None, Some("STOP")},
     usage : {[input_tokens |-> 1, output_tokens |-> 1]},
     role : {"Assistant"}, content : {<<>>, <<Text(<<"b">>)>>}]

MessageDeltas ==
    {MessageDelta(r, s) : r \in {None} \cup {Some(x) : x \in StopReasons},
                          s \in {None, Some("STOP"), Some("END")}}

InitUpdate ==
    /\ ScanIdle
    /\ ConvIdle
    /\ CallerIdle
    /\ spc = "top"
    /\ events = <<>>
    /\ epos = 0
    /\ assistant_content = <<>>
    /\ current_text = <<>>
    /\ streaming_message \in {Some(m) : m \in StreamingMessages}
    /\ BuildIdle

\* message.update(delta)
Update ==
    /\ \E delta \in MessageDeltas :
        /\ streaming_message' = Some(StreamingMessage_update(streaming_message[1], delta))
        /\ lastOp' = "update"
        /\ lastArg' = Some(<<streaming_message[1], delta>>)
    /\ UNCHANGED <<scanVars, convVars, lastRequest, lastReturn, pc, pending_request, sent,
                   rawBody, contents, idx, respLen, built, sendVars, spc, events, epos,
                   assistant_content, current_text, buildVars>>

NextUpdate == Update

SpecUpdate == InitUpdate /\ [][NextUpdate]_vars

-----------------------------------------------------------------------------
\* A MessagesRequestBuilder that is set up and built for an Api.

Models == {"claude-opus-4-20250514"}
TokenLimits == {7, 4096}
Hosts == {"localhost"}

\* Api::new, with any of the three setters applied.
Apis ==
    LET a0 == {Api_new("key")}
        a1 == a0 \cup {Api_default_model(a, m) : a \in a0, m \in Models}
        a2 == a1 \cup {Api_default_max_tokens(a, n) : a \in a1, n \in TokenLimits}
    IN a2 \cup {Api_endpoint_host(a, h) : a \in a2, h \in Hosts}

InitBuild ==
    /\ ScanIdle
    /\ ConvIdle
    /\ CallerIdle
    /\ StreamIdle
    /\ api \in Apis
    /\ builder = MessagesRequestBuilder_new

BuilderCalled(op, arg, b, request) ==
    /\ builder' = b
    /\ lastOp' = op
    /\ lastArg' = Some(arg)
    /\ lastRequest' = request
    /\ UNCHANGED <<scanVars, convVars, lastReturn, pc, pending_request, sent, rawBody,
                   contents, idx, respLen, built, sendVars, streamVars, api>>

BuilderModel ==
    \E m \in Models \cup {DEFAULT_MODEL} : BuilderCalled("model", m, builder_model(builder, m), None)

BuilderMaxTokens ==
    \E n \in TokenLimits : BuilderCalled("max_tokens", n, builder_max_tokens(builder, n), None)

BuilderPushMessage ==
    /\ Len(builder.messages) < MaxHistory
    /\ \E role \in {"User", "Assistant"}, text \in Texts :
        BuilderCalled("push_message", <<role, text>>, builder_push_message(builder, role, text), None)

Build == BuilderCalled("build", "-", builder, Some(build(builder, api)))

NextBuild ==
    \/ BuilderModel
    \/ BuilderMaxTokens
    \/ BuilderPushMessage
    \/ Build

SpecBuild == InitBuild /\ [][NextBuild]_vars

-----------------------------------------------------------------------------
\* A conversation that is saved with to_json and loaded with from_json.

\* Tool results whose content is a list of contents.
ContentToolResults ==
    {[tool_use_id |-> ToolUseId(1), content |-> ToolResultContent_Content(cs), is_error |-> e] :
        cs \in {<<>>, <<Text("result"), Image>>}, e \in {Some(FALSE)}}

ToolResultOfContents ==
    /\ Len(messages) < MaxHistory
    /\ \E tr \in ContentToolResults :
        LET r == tool_result(Conv, tr) IN
            Called("tool_result", tr, r.conv, Some(r.request), None)
    /\ UNCHANGED loopVars

\* conversation.to_json(writer)
Save ==
    /\ Called("to_json", "-", Conv, None, Some(Ok(to_json(Conv))))
    /\ UNCHANGED loopVars

\* Conversation::from_json(reader) of what was just written.
Load ==
    /\ lastOp = "to_json"
    /\ LET doc == lastReturn[1].value
           r == from_json(doc) IN
        Called("from_json", doc, IF r.tag = "Ok" THEN r.value ELSE Conv, None, Some(r))
    /\ UNCHANGED loopVars

NextPersist ==
    \/ NextConv
    \/ ToolResultOfContents
    \/ Save
    \/ Load

SpecPersist == InitConv /\ [][NextPersist]_vars

-----------------------------------------------------------------------------

\* A conversation whose caller registers tools, by add_tool and set_tools,
\* out of two tools of the examples, and builds requests.

MaxToolList == 2

RegisteredTools == {Tool("get_datetime"), Tool("web_search")}

RECURSIVE RegisteredSeqs(_)
\* Lists of at most n of the tools.
RegisteredSeqs(n) ==
    IF n = 0 THEN {<<>>}
    ELSE LET S == RegisteredSeqs(n - 1) IN
            S \cup {Append(ts, t) : ts \in S, t \in RegisteredTools}

\* conversation.add_tool(tool)
RegisterTool ==
    /\ Len(tools) < MaxToolList
    /\ \E tool \in RegisteredTools :
        Called("add_tool", tool, add_tool(Conv, tool), None, None)
    /\ UNCHANGED loopVars

\* conversation.set_tools(ts)
ReplaceTools ==
    /\ \E ts \in RegisteredSeqs(MaxToolList) :
        Called("set_tools", ts, set_tools(Conv, ts), None, None)
    /\ UNCHANGED loopVars

NextTools ==
    \/ RegisterTool
    \/ ReplaceTools
    \/ UserMessage
    \/ SetSystem
    \/ Clear

SpecTools == InitConv /\ [][NextTools]_vars

-----------------------------------------------------------------------------

\* A scanner given one slice that holds several objects: every call scans
\* what is left of the slice after the last split point.

MaxRun == 2

\* The objects {}, {"}":0} and {"":{}}.
RunObjects ==
    {<<LBRACE, RBRACE>>,
     <<LBRACE, QUOTE, RBRACE, QUOTE, 58, 48, RBRACE>>,
     <<LBRACE, QUOTE, QUOTE, 58, LBRACE, RBRACE, RBRACE>>}

\* The whitespace between, before and after the objects.
Gaps == {<<>>, <<32, 10>>}

RECURSIVE Runs(_)
\* Slices of at most m objects with whitespace around them, each with the
\* offsets just past its objects.
Runs(m) ==
    IF m = 0 THEN {[input |-> g, ends |-> <<>>] : g \in Gaps}
    ELSE LET R == Runs(m - 1) IN
            R \cup {[input |-> r.input \o o \o g,
                     ends |-> Append(r.ends, Len(r.input) + Len(o))] :
                        r \in R, o \in RunObjects, g \in Gaps}

RunCases == Runs(MaxRun)

InitScanRun ==
    /\ state = NewScanner.state
    /\ brace_depth = NewScanner.brace_depth
    /\ input \in {c.input : c \in RunCases}
    /\ pos = 0
    /\ lastStart = 0
    /\ lastLen = 0
    /\ lastResult = NeedsMore
    /\ preState = NewScanner.state
    /\ preDepth = NewScanner.brace_depth
    /\ founds = <<>>
    /\ errors = 0
    /\ ConvIdle
    /\ LoopIdle

\* scanner.scan(&input[pos..])
ScanRemainder == Feed(Len(input) - pos)

NextScanRun == ScanRemainder

SpecScanRun == InitScanRun /\ [][NextScanRun]_vars

-----------------------------------------------------------------------------

\* Properties of the scanner (checked under SpecScan).

\* The slice of the last scan call and its first byte.
LastSlice == Slice(lastStart, lastLen)
LastByte == input[lastStart + 1]
\* The last call scanned exactly one byte.
OneByteCall == lastLen = 1

\* Scanning the whole input in one call with a fresh scanner.
WholeScan == Scan(NewScanner.state, NewScanner.brace_depth, input)

\* C1: fragmentation equivalence.  For an input that is a JSON object, fed
\* in any split, no call returns anything but NeedsMore before the input is
\* used up, and the call that uses it up returns Found(k) with
\* (bytes fed before that call) + k equal to the offset of the one-call scan;
\* that Found is the only one and no call returned Error.
C1_FragmentationEquivalence ==
    input \in ValidObjects =>
        /\ pos < Len(input) => lastResult = NeedsMore /\ founds = <<>> /\ errors = 0
        /\ (pos = Len(input) /\ lastLen > 0) =>
            /\ WholeScan.result.kind = "Found"
            /\ lastResult.kind = "Found"
            /\ lastStart + lastResult.offset = WholeScan.result.offset
            /\ founds = <<WholeScan.result.offset>>
            /\ errors = 0

\* A JSON object fed in at least three slices, the last of which begins in the
\* middle of an escape sequence, has been scanned to its end.
C1_Witness ==
    /\ input \in ValidObjects
    /\ pos = Len(input)
    /\ preState = "InEscape"
    /\ lastStart > 1
    /\ lastLen > 1
    /\ lastResult.kind = "Found"

\* C2: string masking.  A '{' or '}' scanned in InString or InEscape leaves
\* brace_depth as it was and the call returns NeedsMore; and a JSON object is
\* reported Found at its last byte, the structural '}', and nowhere else,
\* whatever braces its strings hold.
C2_StringMasking ==
    /\ (OneByteCall /\ preState \in {"InString", "InEscape"} /\ LastByte \in {LBRACE, RBRACE}) =>
        /\ brace_depth = preDepth
        /\ lastResult = NeedsMore
        /\ state = "InString"
    /\ input \in ValidObjects => \A j \in 1..Len(founds) : founds[j] = Len(input)

\* The object {"":"}"} has been scanned to its end, the '}' inside the string
\* in a call of its own.
C2_Witness ==
    /\ input = <<LBRACE, QUOTE, QUOTE, 58, QUOTE, RBRACE, QUOTE, RBRACE>>
    /\ pos = Len(input)
    /\ founds = <<8>>
    /\ lastStart = 6

\* C3: escape handling.  A backslash scanned in InString moves the scanner to
\* InEscape; a call that begins in InEscape consumes its first byte, whatever
\* it is, and goes on as a scanner in InString would on the rest of the
\* slice, so an escaped quote does not end the string, also when the
\* backslash came in the call before.
C3_EscapeHandling ==
    /\ (OneByteCall /\ preState = "InString" /\ LastByte = BACKSLASH) =>
        state = "InEscape" /\ brace_depth = preDepth /\ lastResult = NeedsMore
    /\ (OneByteCall /\ preState = "InEscape") =>
        state = "InString" /\ brace_depth = preDepth /\ lastResult = NeedsMore
    /\ (lastLen >= 1 /\ preState = "InEscape") =>
        LET rest == Scan("InString", preDepth, Tail(LastSlice)) IN
            /\ state = rest.state
            /\ brace_depth = rest.brace_depth
            /\ lastResult.kind = rest.result.kind
            /\ lastResult.kind = "Found" => lastResult.offset = rest.result.offset + 1

\* In a JSON object a call has begun in InEscape (the backslash came in an
\* earlier call) with an escaped quote as its first byte, and left the string
\* open.
C3_Witness ==
    /\ input \in ValidObjects
    /\ OneByteCall
    /\ preState = "InEscape"
    /\ LastByte = QUOTE
    /\ state = "InString"

\* The last call reached 0-based index i of its slice in LookingForStart.
ReachedLookingForStart(i) ==
    LET before == Scan(preState, preDepth, Slice(lastStart, i)) IN
        before.result = NeedsMore /\ before.state = "LookingForStart"

\* C4: scan returns Error exactly when it meets, in LookingForStart, a byte
\* that is neither ASCII whitespace nor '{'.  Whitespace is skipped in
\* LookingForStart; in InObject and InString it is a byte like any other
\* non-structural one and changes nothing (in InEscape it is the escaped
\* byte).
C4_ErrorOnlyLookingForStart ==
    /\ lastResult = Error <=>
        \E i \in 0..(lastLen - 1) :
            /\ ReachedLookingForStart(i)
            /\ ~IsAsciiWhitespace(input[lastStart + i + 1])
            /\ input[lastStart + i + 1] # LBRACE
    /\ lastResult = Error => state = "LookingForStart" /\ preState = "LookingForStart"
    /\ (OneByteCall /\ IsAsciiWhitespace(LastByte) /\ preState # "InEscape") =>
        state = preState /\ brace_depth = preDepth /\ lastResult = NeedsMore

\* A call returned Error on a byte after leading whitespace, following a call
\* that had found an object.
C4_Witness ==
    /\ lastResult = Error
    /\ Len(founds) = 1
    /\ lastLen = 2
    /\ IsAsciiWhitespace(LastByte)

\* C5: Found(k) is returned for the '}' at 0-based index k - 1 of the slice
\* that the scanner reaches in InObject with brace_depth 1, with
\* 1 <= k <= slice length, and leaves the scanner in LookingForStart with
\* depth 0; a call that returns NeedsMore from inside an object leaves the
\* scanner inside it (not LookingForStart, depth >= 1).
C5_FoundAtClosingBrace ==
    /\ lastResult.kind = "Found" =>
        LET k == lastResult.offset
            before == Scan(preState, preDepth, Slice(lastStart, k - 1)) IN
            /\ 1 <= k /\ k <= lastLen
            /\ input[lastStart + k] = RBRACE
            /\ before.result = NeedsMore
            /\ before.state = "InObject"
            /\ before.brace_depth = 1
            /\ state = "LookingForStart"
            /\ brace_depth = 0
            /\ pos = lastStart + k
    /\ (OneByteCall /\ preState = "InObject" /\ preDepth = 1 /\ LastByte = RBRACE) =>
        lastResult = Found(1)
    /\ (lastResult = NeedsMore /\ preState # "LookingForStart") =>
        state # "LookingForStart" /\ brace_depth >= 1

\* A call that began inside an object returned Found past the first byte and
\* before the end of its slice.
C5_Witness ==
    /\ lastResult.kind = "Found"
    /\ lastResult.offset < lastLen
    /\ lastResult.offset > 1
    /\ preState = "InObject"

-----------------------------------------------------------------------------
\* Properties of the conversation (checked under SpecConv).

\* The system prompt and the tools a request carries are those of the
\* conversation: system if and only if one is set, tools if and only if the
\* list is not empty.
CarriesSystemAndTools(request, sys, ts) ==
    /\ (sys = None) <=> (request.body.system = None)
    /\ sys # None => request.body.system = sys
    /\ (ts = <<>>) <=> (request.body.tools = None)
    /\ ts # <<>> => request.body.tools = Some(ts)

\* C6: user_message(text) appends exactly one message, of role User with the
\* single piece Text(text), leaves the system prompt and the tools alone, and
\* returns a request that carries the whole history (the new message
\* included), the system prompt if and only if one is set and the tools if
\* and only if the tool list is not empty.
C6_UserMessageRequest ==
    [][lastOp' = "user_message" =>
        /\ messages' = Append(messages, [role |-> "User",
                                         content |-> <<[kind |-> "Text", text |-> lastArg'[1]]>>])
        /\ system' = system
        /\ tools' = tools
        /\ lastRequest' # None
        /\ lastRequest'[1].body.messages = messages'
        /\ CarriesSystemAndTools(lastRequest'[1], system', tools')]_vars

\* A user_message on a conversation with an earlier message, a system prompt
\* and a tool.
C6_Witness ==
    /\ lastOp = "user_message"
    /\ Len(messages) = 2
    /\ system # None
    /\ tools # <<>>
    /\ lastRequest # None
    /\ Len(lastRequest[1].body.messages) = 2

\* A decoded content piece is the piece w of the response.
SamePiece(c, w) ==
    \/ w.type = "text" /\ c.kind = "Text" /\ c.text = w.text
    \/ /\ w.type = "tool_use"
       /\ c.kind = "ToolUse"
       /\ c.tool_use.id = w.id
       /\ c.tool_use.name = w.name
       /\ c.tool_use.input = w.input

\* The message m is the message of the response w: its role and, piece by
\* piece, its content.
SameMessage(m, w) ==
    /\ m.role = (IF w.role = "assistant" THEN "Assistant" ELSE "User")
    /\ Len(m.content) = Len(w.content)
    /\ \A i \in 1..Len(w.content) : SamePiece(m.content[i], w.content[i])

\* C9: handle_response on a well-formed response of type message appends
\* exactly the message of that response to the history and returns its
\* content.
C9_HandleResponseAppends ==
    [][(lastOp' = "handle_response" /\ lastArg'[1] \in WellFormedResponses) =>
        /\ Len(messages') = Len(messages) + 1
        /\ SubSeq(messages', 1, Len(messages)) = messages
        /\ SameMessage(messages'[Len(messages')], lastArg'[1])
        /\ lastReturn' # None
        /\ lastReturn'[1].tag = "Ok"
        /\ lastReturn'[1].value.kind = "HandleAgentMessage"
        /\ lastReturn'[1].value.content = messages'[Len(messages')].content
        /\ system' = system
        /\ tools' = tools]_vars

\* A response with a text and a tool use, handled after a user message.
C9_Witness ==
    /\ lastOp = "handle_response"
    /\ lastArg[1] \in WellFormedResponses
    /\ Len(lastArg[1].content) = 2
    /\ lastArg[1].content[1].type = "text"
    /\ lastArg[1].content[2].type = "tool_use"
    /\ Len(messages) = 2
    /\ messages[1].role = "User"
    /\ lastReturn[1].tag = "Ok"

\* C10: a handle_response that returns an error (a body that does not
\* decode, or an error envelope of the provider) leaves the history, the
\* system prompt and the tools as they were, so the message the turn
\* appended before it is still the last one.
C10_ErrorLeavesHistory ==
    [][(lastOp' = "handle_response" /\ lastReturn'[1].tag = "Err") =>
        /\ messages' = messages
        /\ system' = system
        /\ tools' = tools
        /\ lastArg'[1] \in ProviderErrors <=> lastReturn'[1].error.kind = "Api"
        /\ lastArg'[1] \in UndecodableResponses <=> lastReturn'[1].error.kind = "Serde"]_vars

\* An error envelope handled right after a user message: the user message is
\* still the only one.
C10_Witness ==
    /\ lastOp = "handle_response"
    /\ lastReturn[1].tag = "Err"
    /\ lastReturn[1].error.kind = "Api"
    /\ Len(messages) = 1
    /\ messages[1].role = "User"

\* A body that does not decode, handled right after a tool result.
C10_WitnessSerde ==
    /\ lastOp = "handle_response"
    /\ lastReturn[1].tag = "Err"
    /\ lastReturn[1].error.kind = "Serde"
    /\ Len(messages) = 1
    /\ messages[1].content[1].kind = "ToolResult"

-----------------------------------------------------------------------------
\* Properties of the assistant loop (checked under SpecLoop).

\* The tool uses among the pieces c, in order.
ToolUsesOf(c) == SelectSeq(c, LAMBDA piece : piece.kind = "ToolUse")

\* C7: the tool results of a turn are appended as a single User message
\* whose content is the ordered list of ToolResult pieces, one for each tool
\* use of the assistant message they answer.
C7_ToolResultsOnePerToolUse ==
    lastOp = "tool_results" =>
        LET m == messages[Len(messages)]
            uses == ToolUsesOf(messages[respLen].content)
        IN /\ Len(messages) = respLen + 1
           /\ m.role = "User"
           /\ Len(m.content) = Len(uses)
           /\ \A i \in 1..Len(uses) :
                /\ m.content[i].kind = "ToolResult"
                /\ m.content[i].tool_result.tool_use_id = uses[i].tool_use.id

\* C8: when the for loop is through with an assistant message that has at
\* least one tool use, exactly one User message has been appended for it,
\* holding a result for every one of its tool uses, and exactly one request
\* has been built, which is the pending one.
C8_OneBatchPerAssistantMessage ==
    (pc = "top" /\ idx = Len(contents) /\ lastOp = "tool_results") =>
        /\ Len(messages) = respLen + 1
        /\ Len(messages[Len(messages)].content) = Len(ToolUsesOf(contents))
        /\ built = 1
        /\ pending_request = lastRequest

-----------------------------------------------------------------------------
\* Properties of deserialize_response (checked under SpecDecode).

C11_WitnessApi ==
    /\ lastOp = "deserialize_response"
    /\ lastArg[1] \in RecognisedErrors
    /\ lastArg[1].error.type = "not_found_error"
    /\ lastReturn[1].tag = "Err"
    /\ lastReturn[1].error.kind = "Api"


-----------------------------------------------------------------------------
\* The turn protocol of a conversation (checked under SpecConv).

\* The operations that start a turn.
TurnOps == {"user_message", "tool_result"}

\* C12: a turn operation called right after another turn operation, whose
\* request is therefore still outstanding, is refused: it appends nothing to
\* the history and returns no second request.
C12_OneOutstandingRequest ==
    [][(lastOp \in TurnOps /\ lastOp' \in TurnOps) =>
        /\ messages' = messages
        /\ lastRequest' = None]_vars

\* C13: handle_response called while no request is outstanding (on a
\* conversation that was never used, or right after a handle_response) is
\* refused: it returns an error and appends nothing to the history.
C13_ResponseNeedsRequest ==
    [][(lastOp \in {"new", "handle_response"} /\ lastOp' = "handle_response") =>
        /\ messages' = messages
        /\ lastReturn'[1].tag = "Err"]_vars

\* The message is one a turn operation appends: the user's text or a tool
\* result.
IsTurnMessage(m) ==
    /\ m.role = "User"
    /\ \/ m.content[1].kind = "ToolResult"
       \/ m.content[1].kind = "Text" /\ m.content[1].text \in Texts

\* C14: when a turn has ended (handle_response has returned), every message
\* a turn operation appended is followed by the assistant message of its
\* turn, so the history shows no turn that did not complete.
C14_HistoryOnlyCompletedTurns ==
    lastOp = "handle_response" =>
        \A i \in 1..Len(messages) :
            IsTurnMessage(messages[i]) =>
                /\ i < Len(messages)
                /\ messages[i + 1].role = "Assistant"


-----------------------------------------------------------------------------
\* The tool round trip (checked under SpecRoundTrip).

\* C15: from an empty conversation, user_message, handle_response of an
\* assistant message with one tool use, tool_result with the matching result
\* and handle_response of the final assistant message leave exactly four
\* messages: the user's, the assistant's with the tool use, the user's with
\* the tool result, the final assistant's.
C15_ToolRoundTrip ==
    [][(lastOp = "tool_result" /\ lastOp' = "handle_response") =>
        /\ Len(messages') = 4
        /\ messages'[1] = [role |-> "User", content |-> <<[kind |-> "Text", text |-> "Hello!"]>>]
        /\ messages'[2].role = "Assistant"
        /\ Len(ToolUsesOfMessage(messages'[2])) = 1
        /\ messages'[3].role = "User"
        /\ Len(messages'[3].content) = 1
        /\ messages'[3].content[1].kind = "ToolResult"
        /\ messages'[3].content[1].tool_result.tool_use_id =
                ToolUsesOfMessage(messages'[2])[1].tool_use.id
        /\ SameMessage(messages'[4], lastArg'[1])
        /\ lastReturn'[1].tag = "Ok"]_vars

\* The round trip is through: four messages, the last one the final
\* assistant message with a text.
C15_Witness ==
    /\ lastOp = "handle_response"
    /\ Len(messages) = 4
    /\ messages[2].role = "Assistant"
    /\ messages[3].content[1].kind = "ToolResult"
    /\ messages[3].content[1].tool_result.is_error = None
    /\ messages[4].role = "Assistant"
    /\ Len(messages[4].content) = 1
    /\ messages[4].content[1].kind = "Text"


-----------------------------------------------------------------------------
\* Unknown tools in the assistant loop (checked under SpecLoop).

\* The names of the tools registered with the conversation.
RegisteredNames == {tools[i].name : i \in 1..Len(tools)}

\* C16: for a tool use whose name is that of no registered tool the loop
\* does not fail and submits exactly one tool result, with the id of the
\* tool use and is_error true.
C16_UnknownTool ==
    [][(/\ pc = "items"
        /\ contents[idx + 1].kind = "ToolUse"
        /\ contents[idx + 1].tool_use.name \notin RegisteredNames) =>
        /\ pc' # "panicked"
        /\ lastOp' = "tool_results"
        /\ Len(lastArg'[1]) = 1
        /\ lastArg'[1][1].tool_use_id = contents[idx + 1].tool_use.id
        /\ lastArg'[1][1].is_error = Some(TRUE)
        /\ messages'[Len(messages')] =
                [role |-> "User",
                 content |-> <<[kind |-> "ToolResult", tool_result |-> lastArg'[1][1]]>>]]_vars

\* The loop has answered the use of the tool nope.
C16_Witness ==
    /\ lastOp = "tool_results"
    /\ pc # "panicked"
    /\ idx > 0
    /\ contents[idx].kind = "ToolUse"
    /\ contents[idx].tool_use.name = "nope"
    /\ lastArg[1][1].tool_use_id = contents[idx].tool_use.id
    /\ lastArg[1][1].is_error = Some(TRUE)
    /\ lastArg[1][1].content = ToolResultContent_String(<<"Unknown tool: ", "nope">>)


-----------------------------------------------------------------------------
\* Properties of send_request (checked under SpecSend).

\* The attempt got a rate-limit signal (HTTP 429 or 420).
IsRateLimitSignal(executed) ==
    executed.tag = "Ok" /\ executed.value.status \in {429, 420}

\* The attempt got a response with a success status and a body that can be
\* read.
IsSuccess(executed) ==
    /\ executed.tag = "Ok"
    /\ executed.value.status = 200
    /\ executed.value.body # None

\* C17: send_request makes at most 3 attempts for one call; it goes on to a
\* further attempt only after a rate-limit signal; three rate-limit signals
\* in a row make it return the fatal error with no fourth attempt; a success
\* on attempt 1, 2 or 3 is returned as the body.
C17_RetryBound ==
    /\ Len(attempts) <= 3
    /\ Len(responses) = Len(attempts)
    /\ \A i \in 1..(Len(responses) - 1) : IsRateLimitSignal(responses[i])
    /\ (pc = "sending" /\ responses # <<>>) => IsRateLimitSignal(responses[Len(responses)])
    /\ (Len(responses) = 3 /\ IsRateLimitSignal(responses[3])) =>
            /\ pc = "returned"
            /\ sendResult = Some(Err(RateLimitExceeded))
    /\ (responses # <<>> /\ IsSuccess(responses[Len(responses)])) =>
            /\ pc = "returned"
            /\ sendResult = Some(Ok(responses[Len(responses)].value.body[1]))

\* Two rate-limit signals and then a success: the third attempt's body is
\* returned.
C17_Witness ==
    /\ pc = "returned"
    /\ Len(attempts) = 3
    /\ IsRateLimitSignal(responses[1])
    /\ IsRateLimitSignal(responses[2])
    /\ IsSuccess(responses[3])
    /\ sendResult = Some(Ok("body"))

\* Three rate-limit signals: the fatal error, after three attempts.
C17_WitnessExhausted ==
    /\ pc = "returned"
    /\ Len(attempts) = 3
    /\ sendResult = Some(Err(RateLimitExceeded))

\* C18: a response whose status is neither a success nor a rate-limit
\* signal ends the call at once, whatever tries are left, with a fatal error
\* that carries the status and the body of the response.
C18_OtherStatusFatal ==
    (/\ responses # <<>>
     /\ responses[Len(responses)].tag = "Ok"
     /\ responses[Len(responses)].value.status \notin (200..299) \cup {429, 420}
     /\ responses[Len(responses)].value.body # None) =>
        LET resp == responses[Len(responses)].value IN
            /\ pc = "returned"
            /\ retries_left = 3 - (Len(responses) - 1)
            /\ sendResult # None
            /\ sendResult[1].tag = "Err"
            /\ sendResult[1].error.kind = "RequestFailed"
            /\ sendResult[1].error.status = resp.status
            /\ sendResult[1].error.text = resp.body

\* C19: every attempt of a call sends the request send_request was given,
\* and while the call runs the history stays what it was when that request
\* was built: it ends with the user's message and is the history the request
\* carries.
C19_SameRequestEveryAttempt ==
    pc \in {"sending", "returned"} =>
        /\ \A i \in 1..Len(attempts) : attempts[i] = sent[1] /\ attempts[i] = attempts[1]
        /\ messages = sent[1].body.messages
        /\ messages # <<>>
        /\ messages[Len(messages)].role = "User"
        /\ lastOp = "user_message"
        /\ lastRequest = sent

\* Three attempts have been made for one request.
C19_Witness ==
    /\ Len(attempts) = 3
    /\ attempts[3] = sent[1]
    /\ Len(waits) >= 2
    /\ Len(messages) = 1

\* The seconds a retry-after header stands for, for the headers that read
\* as a whole number.
ReadableSeconds ==
    (<<"2">> :> 2) @@ (<<"0">> :> 0) @@ (<<"1", "0">> :> 10) @@ (<<"+", "3">> :> 3)

\* The wait the claim asks for after a rate-limit signal.
ExpectedWait(resp) ==
    IF resp.retry_after # None /\ resp.retry_after[1] \in DOMAIN ReadableSeconds
    THEN ReadableSeconds[resp.retry_after[1]]
    ELSE 1

\* C20: after every rate-limit signal, the last one included, send_request
\* sleeps once: the number of seconds of the retry-after header if there is
\* one that reads as a whole number, 1 second otherwise; it sleeps at no
\* other time.
C20_RetryAfterWait ==
    /\ Len(waits) = Cardinality({i \in 1..Len(responses) : IsRateLimitSignal(responses[i])})
    /\ \A i \in 1..Len(waits) : waits[i] = ExpectedWait(responses[i].value)
    /\ sendResult = Some(Err(RateLimitExceeded)) => Len(waits) = 3

\* Waits of 10 seconds (header 10), 1 second (no header) and 1 second (a
\* header that is no number), then the fatal error.
C20_Witness ==
    /\ sendResult = Some(Err(RateLimitExceeded))
    /\ waits = <<10, 1, 1>>
    /\ responses[2].value.retry_after = None
    /\ responses[3].value.retry_after = Some(<<"-", "1">>)


-----------------------------------------------------------------------------
\* Properties of the streaming example (checked under SpecStream).

\* The events the while loop has taken so far.
Taken == SubSeq(events, 1, epos)

\* Block i is open after the first k events of s: it was started and not
\* stopped since.
OpenAt(s, k, i) ==
    \E p \in 1..k :
        /\ s[p].type = "content_block_start" /\ s[p].index = i
        /\ \A r \in (p + 1)..k : ~(s[r].type = "content_block_stop" /\ s[r].index = i)

\* Where the block that is open at index i after the first k events of s
\* was started.
StartOf(s, k, i) ==
    CHOOSE p \in 1..k :
        /\ s[p].type = "content_block_start" /\ s[p].index = i
        /\ \A r \in (p + 1)..k : ~(s[r].type \in {"content_block_start", "content_block_stop"}
                                   /\ s[r].index = i)

\* The delta fits the block it is for: text for a text block, partial JSON
\* for a tool use.
DeltaFits(delta, block) ==
    \/ delta.type = "text_delta" /\ block.kind = "Text"
    \/ delta.type = "input_json_delta" /\ block.kind = "ToolUse"

IsBlockEvent(e) ==
    e.type \in {"content_block_start", "content_block_delta", "content_block_stop"}

\* The first k events of s are what the API may send: the indices never
\* decrease, a block is started at an index that is not open, and deltas
\* and stops are for open blocks.
WellFormed(s, k) ==
    /\ \A q1, q2 \in 1..k :
        (q1 < q2 /\ IsBlockEvent(s[q1]) /\ IsBlockEvent(s[q2])) => s[q1].index <= s[q2].index
    /\ \A q \in 1..k :
        CASE s[q].type = "content_block_start" -> ~OpenAt(s, q - 1, s[q].index)
          [] s[q].type = "content_block_delta" ->
                /\ OpenAt(s, q - 1, s[q].index)
                /\ DeltaFits(s[q].delta, s[StartOf(s, q - 1, s[q].index)].content_block)
          [] s[q].type = "content_block_stop" -> OpenAt(s, q - 1, s[q].index)
          [] OTHER -> TRUE

RECURSIVE DeltaTexts(_, _, _, _)
\* The texts of the text deltas for index i among s[from..to], in order.
DeltaTexts(s, i, from, to) ==
    IF from > to THEN <<>>
    ELSE LET e == s[from]
             t == IF e.type = "content_block_delta" /\ e.index = i /\ e.delta.type = "text_delta"
                  THEN e.delta.text ELSE <<>>
         IN t \o DeltaTexts(s, i, from + 1, to)

\* The text of the text block started at s[p], as far as s[p..k] gives it.
OwnText(s, p, k) == s[p].content_block.text \o DeltaTexts(s, s[p].index, p + 1, k)

\* The loop is about to take a content_block_stop for an open block of a
\* stream that is well formed so far.
AtStop ==
    /\ spc = "events"
    /\ epos < Len(events)
    /\ events[epos + 1].type = "content_block_stop"
    /\ WellFormed(events, epos + 1)

\* The block that stop is for.
StoppedBlock == events[StartOf(events, epos, events[epos + 1].index)].content_block

\* C21: a streaming turn that ends without message_stop (an error event or
\* an error of the event source) leaves the history as it was when the
\* stream began: nothing of what was collected is pushed.
C21_AbortedTurnLeavesHistory ==
    [][(spc = "after" /\ events[epos].type # "message_stop") => messages' = messages]_vars

\* The stream is message_start, the start of one text block, text deltas
\* for it, its stop, message_delta with end_turn, and message_stop.
IsOneTextBlockStream(s) ==
    /\ Len(s) >= 6
    /\ s[1] = Open /\ s[2] = MessageStart
    /\ s[3].type = "content_block_start" /\ s[3].content_block.kind = "Text"
    /\ \A k \in 4..(Len(s) - 3) :
        /\ s[k].type = "content_block_delta" /\ s[k].index = s[3].index
        /\ s[k].delta.type = "text_delta"
    /\ s[Len(s) - 2] = ContentBlockStop(s[3].index)
    /\ s[Len(s) - 1] = MessageDeltaEvent(MessageDelta(Some("end_turn"), None))
    /\ s[Len(s)] = MessageStop

\* The response without streaming that says the same as such a stream.
EquivalentResponse(s) ==
    RawMessage("assistant", <<[type |-> "text", text |-> OwnText(s, 3, Len(s))]>>)

\* C22: for a stream of message_start, one text block with n >= 0 text
\* deltas, message_delta(end_turn) and message_stop, the message the turn
\* pushes is the message decoded from the equivalent response without
\* streaming, also when the text is empty.
C22_StreamEqualsResponse ==
    (spc \in {"top", "done"} /\ epos = Len(events) /\ IsOneTextBlockStream(events))
    => /\ Len(messages) = 2
       /\ messages[2] = DecodeMessagesResponse(EquivalentResponse(events))[1].message

RECURSIVE Fold(_, _, _)
\* The while loop over all of s, from the two buffers given.
Fold(content, text, s) ==
    IF s = <<>> THEN [assistant_content |-> content, current_text |-> text, break |-> FALSE]
    ELSE LET r == StreamStep(content, text, Head(s)) IN
         IF r.break THEN r ELSE Fold(r.assistant_content, r.current_text, Tail(s))

IsPingOrUnknown(e) == e.type \in {"ping", "unknown"}
WithoutPings(s) == SelectSeq(s, LAMBDA e : ~IsPingOrUnknown(e))

\* C23: ping events and events of an unknown type never end the turn and
\* change nothing: whatever was taken so far, the buffers are those the
\* same events without the pings and unknowns give.
C23_PingAndUnknownChangeNothing ==
    spc \in {"events", "after"} =>
        LET r == Fold(<<>>, <<>>, WithoutPings(Taken)) IN
            /\ assistant_content = r.assistant_content
            /\ current_text = r.current_text
            /\ (spc = "after") = r.break

\* A ping was taken before a text block and an unknown event inside it, and
\* the text of the block is in current_text.
C23_Witness ==
    /\ spc = "events"
    /\ epos = 5
    /\ events[3] = Ping
    /\ events[4] = ContentBlockStart(0, Text(<<"a">>))
    /\ events[5] = Unknown
    /\ current_text = <<"a">>

\* C25: the partial JSON of the input_json_delta events for a tool use
\* block is collected, and the stop of the block appends the ToolUse piece.
C25_OtherDeltasFinalized ==
    [][(AtStop /\ StoppedBlock.kind = "ToolUse")
       => /\ Len(assistant_content') = Len(assistant_content) + 1
          /\ assistant_content'[Len(assistant_content')].kind = "ToolUse"]_vars

\* C28: every content_block_stop appends exactly one piece, whatever the
\* kind of the block, and also when its text is empty.
C28_StopAppendsOnePiece ==
    [][AtStop => Len(assistant_content') = Len(assistant_content) + 1]_vars

\* C29: the text of the piece that the stop of a text block appends is the
\* text of its content_block_start followed by the texts of its text
\* deltas, in the order they came.
C29_TextIsStartThenDeltas ==
    [][(AtStop /\ StoppedBlock.kind = "Text"
        /\ Len(assistant_content') = Len(assistant_content) + 1)
       => assistant_content'[Len(assistant_content')] =
            Text(OwnText(events, StartOf(events, epos, events[epos + 1].index), epos))]_vars

\* C30: blocks are kept apart by index: the stop of block i finalizes only
\* block i, so the text collected for another text block j that is still
\* open is still there after it.
C30_BlocksKeptApartByIndex ==
    [][AtStop =>
        \A j \in {0, 1} :
            (/\ j # events[epos + 1].index
             /\ OpenAt(events, epos, j)
             /\ events[StartOf(events, epos, j)].content_block.kind = "Text")
            => current_text' = OwnText(events, StartOf(events, epos, j), epos)]_vars


-----------------------------------------------------------------------------
\* Properties of StreamingMessage::update (checked under SpecUpdate).

\* C24: update merges only the fields the delta has: stop_reason and
\* stop_sequence are the delta's value if it has one and the value before
\* otherwise, so a delta never makes them absent again, and id, model,
\* usage, role and content are as before.
C24_UpdateMergesPresentFields ==
    lastOp = "update" =>
        LET before == lastArg[1][1]
            delta == lastArg[1][2]
            after == streaming_message[1]
        IN /\ after.stop_reason =
                IF delta.stop_reason # None THEN delta.stop_reason ELSE before.stop_reason
           /\ after.stop_sequence =
                IF delta.stop_sequence # None THEN delta.stop_sequence ELSE before.stop_sequence
           /\ (before.stop_reason # None => after.stop_reason # None)
           /\ (before.stop_sequence # None => after.stop_sequence # None)
           /\ after.id = before.id
           /\ after.model = before.model
           /\ after.usage = before.usage
           /\ after.role = before.role
           /\ after.content = before.content

\* A delta with a stop_sequence and without a stop_reason was merged into a
\* message that had a stop_reason and a piece of content: the stop_reason and
\* the content are kept and the stop_sequence is the new one.
C24_Witness ==
    /\ lastOp = "update"
    /\ lastArg[1][1].stop_reason = Some("max_tokens")
    /\ lastArg[1][1].stop_sequence = Some("STOP")
    /\ lastArg[1][2] = MessageDelta(None, Some("END"))
    /\ streaming_message[1].stop_reason = Some("max_tokens")
    /\ streaming_message[1].stop_sequence = Some("END")
    /\ streaming_message[1].content = <<Text(<<"b">>)>>


-----------------------------------------------------------------------------
\* Properties of MessagesRequestBuilder::build (checked under SpecBuild).

\* C27: every request build returns is a POST to /v1/messages at the
\* endpoint host of the Api, with exactly the headers content-type,
\* anthropic-version, x-api-key, anthropic-model and max-tokens, in this
\* order; the anthropic-model header is the model of the body (the builder's
\* if it has one, else the default of the Api), and the max-tokens header
\* is the decimal text of the max_tokens of the body, chosen the same way.
C27_BuiltRequest ==
    lastOp = "build" =>
        LET r == lastRequest[1] IN
            /\ r.method = "POST"
            /\ r.path = "/v1/messages"
            /\ r.host = api.endpoint_host
            /\ [i \in 1..Len(r.headers) |-> r.headers[i][1]] =
                    <<"content-type", "anthropic-version", "x-api-key", "anthropic-model",
                      "max-tokens">>
            /\ r.headers[1][2] = "application/json"
            /\ r.headers[2][2] = "2023-06-01"
            /\ r.headers[3][2] = api.api_key
            /\ r.headers[4][2] = r.body.model
            /\ r.headers[5][2] = u32_to_string(r.body.max_tokens)
            /\ r.body.model = IF builder.model # None THEN builder.model[1] ELSE api.default_model
            /\ r.body.max_tokens =
                    IF builder.max_tokens # None THEN builder.max_tokens[1]
                    ELSE api.default_max_tokens
            /\ Len(r.body.messages) = Len(builder.messages)

\* A builder with a model of its own and no max_tokens was built for an Api
\* whose default max_tokens is 4096: the header names the builder's model
\* and the text 4096.
C27_Witness ==
    /\ lastOp = "build"
    /\ builder.model = Some("claude-opus-4-20250514")
    /\ builder.max_tokens = None
    /\ api.default_max_tokens = 4096
    /\ api.default_model = DEFAULT_MODEL
    /\ Len(builder.messages) = 1
    /\ lastRequest[1].headers[4][2] = "claude-opus-4-20250514"
    /\ lastRequest[1].headers[5][2] = <<"4", "0", "9", "6">>
    /\ lastRequest[1].body.max_tokens = 4096


-----------------------------------------------------------------------------
\* Properties of to_json and from_json (checked under SpecPersist).

\* C26: for every conversation that can be reached, from_json of what
\* to_json wrote succeeds and gives a conversation with the same system,
\* history and tools, and to_json of it writes the same JSON again.
C26_PersistenceRoundTrip ==
    [][lastOp' = "from_json" =>
        /\ lastReturn'[1].tag = "Ok"
        /\ system' = system
        /\ messages' = messages
        /\ tools' = tools
        /\ to_json([system |-> system', messages |-> messages', tools |-> tools']) = lastArg'[1]]_vars

\* A conversation with a system prompt, a tool, an assistant message that
\* holds a tool use and a user message that holds a tool result, its
\* content a list of contents and its is_error Some(false), was written and
\* read back.
C26_Witness ==
    /\ lastOp = "from_json"
    /\ lastReturn[1].tag = "Ok"
    /\ system # None
    /\ tools # <<>>
    /\ Len(messages) = 2
    /\ \E i \in 1..Len(messages[1].content) : messages[1].content[i].kind = "ToolUse"
    /\ Len(messages[2].content) = 1
    /\ messages[2].content[1].kind = "ToolResult"
    /\ messages[2].content[1].tool_result.content.variant = "Content"
    /\ messages[2].content[1].tool_result.content = ToolResultContent_Content(<<Text("result"), Image>>)
    /\ messages[2].content[1].tool_result.is_error = Some(FALSE)


\* C31: when a streaming turn ends with message_stop, exactly one Assistant
\* message is appended to the history, as handle_response does for a
\* response without streaming, also when nothing was collected.
C31_CompletedTurnAppendsOne ==
    [][(spc = "after" /\ events[epos].type = "message_stop")
       => messages' = Append(messages, [role |-> "Assistant", content |-> assistant_content])]_vars


-----------------------------------------------------------------------------
\* Properties of the history (checked under SpecPersist).

\* The last call was a handle_response that returned Ok.
Succeeded(ret) == ret # None /\ ret[1].tag = "Ok"

\* C32: the history is append-only.  user_message, tool_result and a
\* successful handle_response append exactly one message to the previous
\* history; set_system, add_tool, set_tools, to_json and a failed
\* handle_response leave the history unchanged; clear empties the history
\* and leaves system and tools unchanged.
C32_HistoryAppendOnly ==
    [][/\ lastOp' \in {"user_message", "tool_result"}
            => /\ Len(messages') = Len(messages) + 1
               /\ SubSeq(messages', 1, Len(messages)) = messages
       /\ lastOp' = "handle_response"
            => IF Succeeded(lastReturn')
               THEN /\ Len(messages') = Len(messages) + 1
                    /\ SubSeq(messages', 1, Len(messages)) = messages
               ELSE messages' = messages
       /\ lastOp' \in {"set_system", "add_tool", "set_tools", "to_json"}
            => messages' = messages
       /\ lastOp' = "clear"
            => messages' = <<>> /\ system' = system /\ tools' = tools]_vars

\* A clear of a conversation that had a system prompt and a tool.
C32_Witness ==
    /\ lastOp = "clear"
    /\ messages = <<>>
    /\ system # None
    /\ tools # <<>>


-----------------------------------------------------------------------------
\* Properties of the registered tools (checked under SpecTools).

\* C33: the tools form an ordered set with unique names: no two registered
\* tools have the same name, and a request that was just built lists the
\* registered tools in their order of registration.
C33_ToolsOrderedSet ==
    /\ \A i, j \in 1..Len(tools) : tools[i].name = tools[j].name => i = j
    /\ (lastOp = "user_message" /\ tools # <<>>)
            => lastRequest[1].body.tools = Some(tools)


-----------------------------------------------------------------------------
\* Properties of send_request's failures and end (checked under SpecSend and
\* SpecSendFair).

\* The attempt could not be sent, or its response has a success status and a
\* body that cannot be read.
IsTransportFailure(executed) ==
    \/ executed.tag = "Err"
    \/ /\ executed.tag = "Ok"
       /\ is_success(executed.value.status)
       /\ executed.value.body = None

\* C34: a transport failure inside send_request is reported at once as an
\* error and is never retried, whatever tries are left: the attempt that
\* fails is the last one, and the call returns Err (failed to send, or
\* failed to read the body) with retries_left as it was.
C34_TransportFailureNotRetried ==
    /\ \A i \in 1..(Len(responses) - 1) : ~IsTransportFailure(responses[i])
    /\ (responses # <<>> /\ IsTransportFailure(responses[Len(responses)])) =>
            /\ pc = "returned"
            /\ retries_left = 3 - (Len(responses) - 1)
            /\ sendResult = Some(Err(IF responses[Len(responses)].tag = "Err"
                                     THEN FailedToSend ELSE FailedToReadBody))

\* The first attempt could not be sent: the call has returned the error
\* with all three tries left.
C34_Witness ==
    /\ pc = "returned"
    /\ Len(responses) = 1
    /\ responses[1].tag = "Err"
    /\ retries_left = 3
    /\ sendResult = Some(Err(FailedToSend))


\* C39: send_request always ends: whatever the responses are, a call that
\* was entered returns Ok or Err, and it has made at most 3 attempts;
\* while it has not returned, every attempt but the first followed a
\* rate-limit signal that took one try from retries_left.
C39_SendRequestTerminates ==
    /\ [](Len(attempts) <= 3)
    /\ []((pc = "sending") => retries_left = 3 - Len(attempts))
    /\ (pc = "sending") ~> (pc = "returned" /\ sendResult # None)

\* The call returned at its third attempt.
C39_Witness ==
    /\ pc = "returned"
    /\ sendResult # None
    /\ Len(attempts) = 3
    /\ retries_left \in {0, 1}


-----------------------------------------------------------------------------
\* Further properties of the scanner (checked under SpecScan and
\* SpecScanRun).

\* Where the bytes of the object being scanned begin: after the last split
\* point, or at the beginning of the input.
ObjectBase == IF founds = <<>> THEN 0 ELSE founds[Len(founds)]

\* C36: scan on an empty slice returns NeedsMore and leaves state and
\* brace_depth as they were, in every state of the scanner; and a call that
\* returns NeedsMore leaves the scanner with the state and depth that one
\* scan, by a new scanner, of all the bytes fed since the last split point
\* ends with.
C36_NeedsMoreKeepsProgress ==
    /\ lastLen = 0 =>
        lastResult = NeedsMore /\ state = preState /\ brace_depth = preDepth
    /\ (lastResult = NeedsMore /\ errors = 0) =>
        LET whole == Scan(NewScanner.state, NewScanner.brace_depth,
                          Slice(ObjectBase, pos - ObjectBase)) IN
            /\ whole.result = NeedsMore
            /\ whole.state = state
            /\ whole.brace_depth = brace_depth

\* An empty slice was scanned in InEscape, inside a nested object, after
\* bytes fed in earlier calls.
C36_Witness ==
    /\ lastLen = 0
    /\ pos > 2
    /\ errors = 0
    /\ preState = "InEscape"
    /\ state = "InEscape"
    /\ lastResult = NeedsMore

\* The scanner's fields at 0-based index i of the last call's slice.
DuringLastCall(i) == Scan(preState, preDepth, Slice(lastStart, i))

\* state and brace_depth agree: LookingForStart with depth 0, or one of the
\* other states with a depth of at least 1.
Agree(st, d) ==
    /\ (st = "LookingForStart") <=> (d = 0)
    /\ st \in {"InObject", "InString", "InEscape"} => d >= 1
    /\ d >= 0

\* C37: after any sequence of scan calls state = LookingForStart if and
\* only if brace_depth = 0, and brace_depth >= 1 in InObject, InString and
\* InEscape; the same holds at every byte inside a call, so a '}' met in
\* InObject finds a depth of at least 1 and the decrement does not go below
\* 0.
C37_StateAgreesWithDepth ==
    /\ Agree(state, brace_depth)
    /\ \A i \in 0..lastLen :
        LET at == DuringLastCall(i) IN
            at.result = NeedsMore => Agree(at.state, at.brace_depth)

\* The scanner is in an escape sequence inside a nested object.
C37_Witness ==
    /\ state = "InEscape"
    /\ brace_depth = 2
    /\ lastLen > 1

\* C38: scan returns Error only from LookingForStart: a call that begins
\* inside an object does not return Error, whatever bytes it is given; a
\* call that returns Error leaves the scanner in LookingForStart with depth
\* 0; and the call after one that returned Error returns, and leaves, what
\* a new scanner does on the same slice.
C38_ErrorLeavesNewScanner ==
    [][/\ preState' # "LookingForStart" => lastResult' # Error
       /\ lastResult' = Error =>
            /\ state' = NewScanner.state
            /\ brace_depth' = NewScanner.brace_depth
            /\ preDepth' = 0
       /\ lastResult = Error =>
            LET fresh == Scan(NewScanner.state, NewScanner.brace_depth,
                              Slice(lastStart', lastLen')) IN
                /\ lastResult' = fresh.result
                /\ state' = fresh.state
                /\ brace_depth' = fresh.brace_depth]_vars

\* A call returned Error on the first byte and the next call found the
\* object that follows it.
C38_Witness ==
    /\ errors = 1
    /\ lastStart = 1
    /\ lastResult.kind = "Found"
    /\ founds = <<3>>


\* C35: scanning a slice of m objects with optional whitespace around
\* them, each call on what is left after the last reported offset: every
\* call but the last returns Found, the offsets reported are the ends of
\* the m objects in order (so each call stops at the first object of its
\* slice), no call returns Error, and NeedsMore comes once all m objects
\* have been found, with the slice used up.
C35_RepeatedScanFindsEveryObject ==
    \A c \in RunCases :
        c.input = input =>
            /\ errors = 0
            /\ Len(founds) <= Len(c.ends)
            /\ founds = SubSeq(c.ends, 1, Len(founds))
            /\ lastResult.kind = "Found" =>
                    /\ pos = founds[Len(founds)]
                    /\ lastStart + lastResult.offset = c.ends[Len(founds)]
            /\ lastResult = NeedsMore =>
                    \/ pos = 0 /\ lastLen = 0 /\ founds = <<>>
                    \/ pos = Len(input) /\ founds = c.ends

\* Two objects with whitespace between and after them have been found and
\* the call on the whitespace left over returned NeedsMore.
C35_Witness ==
    /\ Len(founds) = 2
    /\ founds[1] < lastStart
    /\ lastLen = 2
    /\ lastResult = NeedsMore
    /\ pos = Len(input)
    /\ \E k \in 1..founds[1] : input[k] = QUOTE

====
